---------------------------- MODULE Spec2Model ----------------------------
(***************************************************************************)
(* A model of mashi727/markdown_uploader: the command line (cli.py,        *)
(* main.py), the page assembler (NotionUploader), the document-store       *)
(* client (NotionClientWrapper.create_page) and the text utilities         *)
(* (MarkdownParser.split_long_text).                                       *)
(*                                                                         *)
(* Three specifications share the variables:                               *)
(*   Spec       a whole run: cli.main / main.main -> upload_file ->        *)
(*              _create_pages_with_metadata -> create_page -> store        *)
(*   SpecClient one create_page call on an arbitrary block list            *)
(*   SpecSplit  split_long_text on every bounded text and maximum          *)
(* A string is a sequence of characters; a rich-text content is a sequence *)
(* of characters too, so that prefixing and slicing are computed.          *)
(***************************************************************************)
EXTENDS Integers, Sequences, FiniteSets, TLC

(* ------------------------------ bounds -------------------------------- *)
\* longest block list the converter hands to the assembler
MaxBlocks == 3
\* largest max_blocks_per_page tried (the program's default is 100)
MaxCap == 2
\* most submissions the document store rejects or breaks in one run
MaxRejects == 2
\* longest block list of a stand-alone create_page call
MaxClientBlocks == 2
\* longest text and largest max_length given to split_long_text
MaxTextLen == 5
MaxSplitLen == 3
\* longest document (in lines) given to parse_frontmatter_and_body
MaxDocLines == 4
\* longest body (in markup elements) given to convert_markdown_to_blocks
MaxElements == 2
\* largest max_rich_text_length tried (the program's default is 2000)
MaxRichText == 2
\* most lines of the prompt and of the result subsection of a transcript
MaxPromptLines == 3
MaxResultLines == 2

(* ------------------------- program constants -------------------------- *)
max_abstract_length == 1000
\* Config.max_blocks_per_page and Config.max_rich_text_length when the
\* environment does not set them
default_max_blocks_per_page == 100
default_max_rich_text_length == 2000

VARIABLES
  \* ---- command line: cli.main and the main.py process it starts
  entry,            \* "cli" | "main" | "none": the entry point of the run
  cli_pc,           \* "start" | "run" | "done" | "none"
  cli_exit,         \* exit status of cli.main, -1 while running
  pc,               \* position of main.main / NotionUploader
  exit_code,        \* exit status of the main.py process, -1 while running
  fault,            \* what ended the run (for reading the exit status against)
  \* ---- configuration and upload_file's locals
  client_version,   \* "v2" (backup_v2 notion_client.py) | "current" (src/src)
  max_blocks_per_page,
  title, abstract,  \* abstract is the summary's length
  produced,         \* the blocks of the token walk, before _validate_blocks
  blocks,           \* the caller's block list (objects shared with the client)
  \* ---- _create_multiple_pages' locals
  main_page_id, remaining_blocks, chunk_num,
  \* ---- create_page
  cpc,              \* "idle" | "first" | "retry" | "ret"
  calls,            \* every create_page call: arguments and result
  children,         \* the block list of the next pages.create
  submissions,      \* every pages.create sent to the document store
  rejects,          \* submissions the store has not accepted so far
  \* ---- split_long_text
  text, max_length, chunks, split_pc,
  \* ---- parse_frontmatter_and_body and convert_markdown_to_blocks' routing
  parser_version,   \* "v3" (backup_v2 and backup_v3 parser) | "current"
  document,         \* the file's text, a sequence of lines
  doc_frontmatter,  \* the returned metadata map (frontmatter)
  doc_body,         \* the returned body, a sequence of lines
  path,             \* "none" | "transcript" | "standard"
  doc_pc,           \* "off" | "parse" | "convert" | "done"
  \* ---- NotionBlockConverter: the standard conversion of a body
  conv_version,     \* "v2" (backup_v2 converter) | "current" (src/src)
  max_rich_text_length,
  md_text,          \* the body, a sequence of markup elements
  conv_parts,       \* the parts of the split at block math still to process
  tokens, tok_i,    \* the tokens of the body and the index of the walk
  conv_blocks,      \* the list the handlers append to; the result at the end
  processed_images, \* self.processed_images
  resolver_env,     \* what get_image_url meets: the file and the uploaders
  resolver_calls,   \* the sources given to ImageUploader.get_image_url
  conv_pc,          \* "off" | "start" | "walk" | "done" | "raised"
  conv_error,       \* the exception that ended the conversion
  conv_run,         \* 1 | 2: the first or the second conversion of the body
  first_blocks,     \* what the first conversion returned
  \* ---- NotionBlockConverter: the conversion of a transcript
  tr_text,          \* the body, a sequence of named lines
  sections,         \* what _parse_remote_claude_sections returned
  tr_blocks,        \* what convert_markdown_to_blocks returned
  tr_pc             \* "off" | "route" | "parse" | "build" | "done" | "standard"

cliVars    == <<entry, cli_pc, cli_exit>>
mainVars   == <<pc, exit_code, fault>>
inputVars  == <<client_version, max_blocks_per_page, title, abstract,
               produced, blocks>>
loopVars   == <<main_page_id, remaining_blocks, chunk_num>>
clientVars == <<cpc, calls, children, submissions, rejects>>
splitVars  == <<text, max_length, chunks, split_pc>>
parseVars  == <<parser_version, document, doc_frontmatter, doc_body, path,
               doc_pc>>
convVars   == <<conv_version, max_rich_text_length, md_text, conv_parts,
               tokens, tok_i,
               conv_blocks, processed_images, resolver_env, resolver_calls,
               conv_pc, conv_error, conv_run, first_blocks>>
transVars  == <<tr_text, sections, tr_blocks, tr_pc>>
docVars    == <<parseVars, convVars, transVars>>
vars == <<cliVars, mainVars, inputVars, loopVars, clientVars, splitVars,
          docVars>>

(* ------------------------------ helpers ------------------------------- *)
Min(a, b) == IF a < b THEN a ELSE b

\* Python's s[:n] and s[n:] on a list or a string
Take(s, n) == SubSeq(s, 1, Min(n, Len(s)))
Drop(s, n) == SubSeq(s, Min(n, Len(s)) + 1, Len(s))

RECURSIVE Flatten(_)
Flatten(ss) == IF ss = <<>> THEN <<>> ELSE Head(ss) \o Flatten(Tail(ss))

\* all sequences over S of length <= n
SeqsUpTo(S, n) == UNION { [1..k -> S] : k \in 0..n }

(* ------------------------------ blocks -------------------------------- *)
\* A block is [type, id, emoji, rich_text]: its Notion type, the identity of
\* the Python dict (its position in the caller's list), the emoji of its icon
\* ("" when it has none) and its rich-text spans [type, content].
TextSpan(c) == [type |-> "text", content |-> c]
Block(t, e, rt) == [type |-> t, id |-> 0, emoji |-> e, rich_text |-> rt]

\* The kinds of block the runs are fed: a paragraph, callouts with and without
\* an icon, with an empty text, with a first span that is no text span, with
\* two spans, and a block of a type the client does not list as valid.
BlockKinds ==
  << Block("paragraph", "", <<TextSpan(<<"p">>)>>),
     Block("callout", "E", <<TextSpan(<<"c">>)>>),
     Block("audio", "", <<>>),
     Block("callout", "", <<TextSpan(<<"c">>)>>),
     Block("callout", "E", <<[type |-> "mention", content |-> <<"m">>]>>),
     Block("callout", "E", <<>>),
     Block("callout", "E", <<TextSpan(<<"c">>), TextSpan(<<"d">>)>>) >>

\* the i-th dict of a list is its own object
WithIds(bs) == [i \in DOMAIN bs |-> [bs[i] EXCEPT !.id = i]]

\* block lists of a whole run: n blocks cycling through the kinds from a start
CycleBlocks(n, shift) ==
  [i \in 1..n |-> BlockKinds[((i - 1 + shift) % Len(BlockKinds)) + 1]]
ConverterOutputs ==
  { CycleBlocks(n, s) : n \in 0..MaxBlocks, s \in 0..(Len(BlockKinds) - 1) }

\* block lists of a stand-alone create_page call: every list over the kinds
ClientBlockLists ==
  { WithIds(bs) : bs \in SeqsUpTo({ BlockKinds[k] : k \in DOMAIN BlockKinds },
                                   MaxClientBlocks) }

(* ------------------- NotionClientWrapper (create_page) ----------------- *)
valid_types ==
  { "paragraph", "heading_1", "heading_2", "heading_3",
    "bulleted_list_item", "numbered_list_item", "to_do",
    "toggle", "child_page", "child_database", "embed",
    "image", "video", "file", "pdf", "bookmark",
    "callout", "quote", "divider", "table_of_contents",
    "column", "column_list", "link_preview", "synced_block",
    "template", "link_to_page", "table", "table_row",
    "code", "equation" }

_is_valid_block(block) == block.type \in valid_types

\* v2 drops the blocks of an unlisted type; the current client sends the list
\* as it is
_preprocess_blocks(version, bs) ==
  IF version = "v2" THEN SelectSeq(bs, _is_valid_block) ELSE bs

\* the Memo property: none for an empty abstract; v2 cuts a long one to
\* max_abstract_length with "..." at the end
_build_page_properties(version, t, a) ==
  [Title |-> t,
   Memo  |-> IF version = "v2" /\ a > max_abstract_length
             THEN (max_abstract_length - 3) + 3 ELSE a]

\* parent_id 0 is None: the page goes to the database
ParentOf(parent_id) ==
  IF parent_id # 0 THEN [page_id |-> parent_id] ELSE [database_id |-> "db"]

\* the first span of a callout after the fallback: f"{emoji} {content}" when
\* the callout has an icon and its first span is a text span
PrefixedRichText(b) ==
  IF b.emoji # "" /\ b.rich_text # <<>> /\ b.rich_text[1].type = "text"
  THEN [b.rich_text EXCEPT ![1].content = <<b.emoji, " ">> \o @]
  ELSE b.rich_text

\* faulty variant: the quote keeps the spans but loses the icon
_convert_callouts_drop_icon(bs) ==
  [i \in DOMAIN bs |->
     IF bs[i].type = "callout"
     THEN [type |-> "quote", id |-> bs[i].id, emoji |-> "",
           rich_text |-> bs[i].rich_text]
     ELSE bs[i]]

_convert_callouts_to_quotes(bs) ==
  [i \in DOMAIN bs |->
     IF bs[i].type = "callout"
     THEN [type |-> "quote", id |-> bs[i].id, emoji |-> "",
           rich_text |-> PrefixedRichText(bs[i])]
     ELSE bs[i]]

\* (_convert_callouts_to_quotes:) the fallback writes the prefixed content into the callout's own span, so
\* the caller's dicts change with it
MutatedInPlace(callers, sent) ==
  [i \in DOMAIN callers |->
     IF \E j \in DOMAIN sent :
          sent[j].id = callers[i].id /\ sent[j].type = "callout"
     THEN [callers[i] EXCEPT !.rich_text = PrefixedRichText(callers[i])]
     ELSE callers[i]]

\* what the document store (or the transport) answers to one pages.create
Responses == {"ok", "api_error_callout", "api_error", "other_exception"}
IsAPIResponseError(resp) == resp \in {"api_error_callout", "api_error"}

\* faulty variant: the fallback retried as long as the error names a callout
NextAfterRejectLoops(version, attempt, resp) ==
  IF version = "v2" /\ resp = "api_error_callout" THEN "retry" ELSE "ret"

\* where create_page goes after an APIResponseError: v2 retries once when the
\* error text holds 'callout'; every other rejection returns None
NextAfterReject(version, attempt, resp) ==
  IF version = "v2" /\ attempt = 1 /\ resp = "api_error_callout"
  THEN "retry" ELSE "ret"

Accepted == { i \in DOMAIN submissions : submissions[i].resp = "ok" }

\* create_page(title, abstract, blocks, parent_id) up to its first
\* pages.create
CreatePageCall(t, a, bs, parent_id) ==
  /\ calls' = Append(calls, [title |-> t, abstract |-> a, blocks |-> bs,
                             parent_id |-> parent_id, result |-> "pending",
                             page |-> 0])
  /\ children' = _preprocess_blocks(client_version, bs)
  /\ cpc' = "first"

\* one pages.create and what create_page does with the answer
Submit(attempt, resp) ==
  LET c     == Len(calls)
      call  == calls[c]
      props == _build_page_properties(client_version, call.title, call.abstract)
      sent  == [call |-> c, attempt |-> attempt,
                parent |-> ParentOf(call.parent_id),
                title |-> props.Title, memo |-> props.Memo,
                children |-> children, resp |-> resp]
  IN
  /\ resp = "ok" \/ rejects < MaxRejects
  /\ submissions' = Append(submissions, sent)
  /\ rejects' = IF resp = "ok" THEN rejects ELSE rejects + 1
  /\ IF resp = "ok"
     THEN /\ calls' = [calls EXCEPT ![c].result = "page",
                                    ![c].page = Cardinality(Accepted) + 1]
          /\ cpc' = "ret"
          /\ UNCHANGED <<children, blocks>>
     ELSE IF IsAPIResponseError(resp)
     THEN IF NextAfterReject(client_version, attempt, resp) = "retry"
          THEN /\ children' = _convert_callouts_to_quotes(children)
               /\ blocks' = MutatedInPlace(blocks, children)
               /\ cpc' = "retry"
               /\ UNCHANGED calls
          ELSE /\ calls' = [calls EXCEPT ![c].result = "none"]
               /\ cpc' = "ret"
               /\ UNCHANGED <<children, blocks>>
     ELSE /\ calls' = [calls EXCEPT ![c].result = "raised"]
          /\ cpc' = "ret"
          /\ UNCHANGED <<children, blocks>>

\* the pages.create of the try block
FirstSubmission ==
  /\ cpc = "first"
  /\ \E resp \in Responses : Submit(1, resp)
  /\ UNCHANGED <<cliVars, mainVars, loopVars, splitVars, docVars>>
  /\ UNCHANGED <<client_version, max_blocks_per_page, title, abstract,
                 produced>>

\* the pages.create of the callout fallback
FallbackSubmission ==
  /\ cpc = "retry"
  /\ \E resp \in Responses : Submit(2, resp)
  /\ UNCHANGED <<cliVars, mainVars, loopVars, splitVars, docVars>>
  /\ UNCHANGED <<client_version, max_blocks_per_page, title, abstract,
                 produced>>

(* ---------------- NotionBlockConverter._validate_blocks --------------- *)
\* Python's s[:n], n negative included
PySliceTo(s, n) ==
  IF n >= 0 THEN Take(s, n)
  ELSE IF Len(s) + n > 0 THEN Take(s, Len(s) + n) ELSE <<>>

Ellipsis == <<".", ".", ".">>

\* src/src _truncate_rich_text: the loop over the spans
RECURSIVE TruncLoop(_, _, _, _)
TruncLoop(rts, total_length, out, maxlen) ==
  IF rts = <<>> THEN out
  ELSE LET rt == Head(rts)
           remaining_length == maxlen - total_length
       IN  IF rt.type = "text"
           THEN IF Len(rt.content) <= remaining_length
                THEN TruncLoop(Tail(rts), total_length + Len(rt.content),
                               Append(out, rt), maxlen)
                ELSE Append(out,
                       TextSpan(PySliceTo(rt.content, remaining_length - 3)
                                \o Ellipsis))
           ELSE TruncLoop(Tail(rts), total_length, Append(out, rt), maxlen)

\* the kinds of block whose rich text src/src _validate_rich_text_length cuts
TruncatedTypes ==
  { "paragraph", "heading_1", "heading_2", "heading_3", "quote",
    "bulleted_list_item", "numbered_list_item", "toggle", "callout" }

_validate_rich_text_length(b, maxlen) ==
  IF b.type \in TruncatedTypes
  THEN [b EXCEPT !.rich_text = TruncLoop(b.rich_text, 0, <<>>, maxlen)]
  ELSE b

\* src/src: stops at max_blocks_per_page blocks; backup_v2: keeps the blocks
\* that have a type and a payload, which each block of the handlers has
_validate_blocks(version, bs, cap, maxlen) ==
  IF version = "v2" THEN SelectSeq(bs, LAMBDA b : b.type # "")
  ELSE [k \in 1..Min(Len(bs), cap) |-> _validate_rich_text_length(bs[k], maxlen)]

(* --------------------------- NotionUploader --------------------------- *)
TitleTokens == <<"T">>
AbstractLens == {0, 7, max_abstract_length + 1}
FileTypes == {"standard", "obsidian", "remote-claude"}
\* front-matter headers, by their keys
Frontmatters == { {}, {"title"}, {"execution_time", "prompt_file"} }

MetaItem(label) ==
  [type |-> "bulleted_list_item", id |-> 0, emoji |-> "",
   rich_text |-> <<TextSpan(<<label>>)>>]

\* a toggleable heading, one bulleted item per known key, a divider
_create_metadata_blocks(frontmatter) ==
  << [type |-> "heading_3", id |-> 0, emoji |-> "",
      rich_text |-> <<TextSpan(<<"metadata">>)>>] >>
  \o (IF "execution_time" \in frontmatter THEN <<MetaItem("execution_time")>> ELSE <<>>)
  \o (IF "connection_host" \in frontmatter THEN <<MetaItem("connection_host")>> ELSE <<>>)
  \o (IF "prompt_file" \in frontmatter THEN <<MetaItem("prompt_file")>> ELSE <<>>)
  \o << [type |-> "divider", id |-> 0, emoji |-> "", rich_text |-> <<>>] >>

\* the head of _create_pages_with_metadata: the list the pages are cut from
WithMetadata(file_type, frontmatter, bs) ==
  IF file_type = "remote-claude" /\ frontmatter # {}
  THEN _create_metadata_blocks(frontmatter) \o bs ELSE bs

\* faulty variant: the test with >= for >
TakesMultiPathLoose(total, cap) == total >= cap

\* the test of _create_pages / _create_pages_with_metadata
TakesMultiPath(total, cap) == total > cap

\* main_blocks = blocks[:max_blocks_per_page]
MainBlocks(bs, cap) == Take(bs, cap)

\* remaining_blocks = blocks[max_blocks_per_page:]
RestAfterMain(bs, cap) == Drop(bs, cap)

\* faulty variant: a chunk one block too long
ChunkOfTooLong(rem, chunk_size) == Take(rem, chunk_size + 1)

\* chunk = remaining_blocks[:chunk_size]
ChunkOf(rem, chunk_size) == Take(rem, chunk_size)

\* faulty variant: one block too few is taken off
RestOfShort(rem, chunk_size) == Drop(rem, chunk_size - 1)

\* remaining_blocks = remaining_blocks[chunk_size:]
RestOf(rem, chunk_size) == Drop(rem, chunk_size)

\* f"{title} (<continued> {chunk_num})"
SubTitle(t, k) == t \o <<" (continued ", k, ")">>

\* faulty variant: the parent left out
ParentForChunkNone(mid) == 0

\* the parent_id handed to create_page for a continuation page
ParentForChunk(mid) == mid

\* faulty variant: a None main page is not checked for
AfterMainFailureGoesOn(result) == result = "raised"

\* `if not main_page: raise RuntimeError`; an exception of create_page leaves
\* _create_multiple_pages as well
MainPageStops(result) == result # "page"

\* faulty variant: no break after a failed continuation page
AfterChunkFailureGoesOn(result) == result = "raised"

\* `else: break` of the continuation loop, or an exception of create_page
ChunkStops(result) == result # "page"

\* the process ends with this status; what ended it is kept for the record
Exit(code, f) ==
  /\ pc' = "done"
  /\ exit_code' = code
  /\ fault' = f

\* main.main: parser.parse_args()
MainParseArgs ==
  /\ pc = "args"
  /\ \E ok \in BOOLEAN :
       IF ok THEN pc' = "config" /\ UNCHANGED <<exit_code, fault>>
       ELSE Exit(2, "usage")
  /\ UNCHANGED <<cliVars, inputVars, loopVars, clientVars, splitVars, docVars>>

\* main.main: Config(); a missing credentials file is sys.exit(1) in
\* _load_notion_config, any other error reaches `except Exception`
MainConfig ==
  /\ pc = "config"
  /\ \E r \in {"ok", "missing", "error"} :
       CASE r = "ok" -> pc' = "validate" /\ UNCHANGED <<exit_code, fault>>
         [] r = "missing" -> Exit(1, "config")
         [] r = "error" -> Exit(1, "exception")
  /\ UNCHANGED <<cliVars, inputVars, loopVars, clientVars, splitVars, docVars>>

\* main.validate_file
MainValidateFile ==
  /\ pc = "validate"
  /\ \E exists \in BOOLEAN :
       IF exists THEN pc' = "new_uploader" /\ UNCHANGED <<exit_code, fault>>
       ELSE Exit(1, "missing_file")
  /\ UNCHANGED <<cliVars, inputVars, loopVars, clientVars, splitVars, docVars>>

\* NotionUploader(config): the Notion client may fail to initialise
MainNewUploader ==
  /\ pc = "new_uploader"
  /\ \E ok \in BOOLEAN :
       IF ok THEN pc' = "upload" /\ UNCHANGED <<exit_code, fault>>
       ELSE Exit(1, "exception")
  /\ UNCHANGED <<cliVars, inputVars, loopVars, clientVars, splitVars, docVars>>

\* upload_file up to its first create_page: parse, convert (the token walk
\* gives any block list, the walk itself has its own specification; the
\* list then goes through the _validate_blocks of either converter), then
\* _create_pages_with_metadata
UploadFile ==
  /\ pc = "upload"
  /\ UNCHANGED <<cliVars, loopVars, splitVars, docVars, client_version,
                 max_blocks_per_page, submissions, rejects>>
  /\ \E readable \in BOOLEAN :
       IF ~readable
       THEN /\ Exit(1, "exception")
            /\ UNCHANGED <<title, abstract, produced, blocks, cpc, calls,
                           children>>
       ELSE \E bs \in ConverterOutputs, cv \in {"v2", "current"},
               a \in AbstractLens, ft \in FileTypes, fm \in Frontmatters :
              LET converted == _validate_blocks(cv, bs, max_blocks_per_page,
                                                max_rich_text_length)
                  all == WithIds(WithMetadata(ft, fm, converted))
                  total_blocks == Len(all)
                  walked == WithIds(WithMetadata(ft, fm, bs))
              IN /\ title' = TitleTokens
                 /\ abstract' = a
                 /\ produced' = Drop(walked, Len(walked) - Len(bs))
                 /\ blocks' = all
                 /\ UNCHANGED <<exit_code, fault>>
                 /\ IF TakesMultiPath(total_blocks, max_blocks_per_page)
                    THEN /\ pc' = "main_page"
                         /\ CreatePageCall(TitleTokens, a,
                              MainBlocks(all, max_blocks_per_page), 0)
                    ELSE /\ pc' = "single"
                         /\ CreatePageCall(TitleTokens, a, all, 0)

\* _create_single_page after create_page has returned
SinglePageReturned ==
  /\ pc = "single" /\ cpc = "ret"
  /\ cpc' = "idle"
  /\ CASE calls[Len(calls)].result = "page" -> Exit(0, "none")
       [] calls[Len(calls)].result = "none" -> Exit(1, "page_creation")
       [] OTHER -> Exit(1, "exception")
  /\ UNCHANGED <<cliVars, inputVars, loopVars, splitVars, docVars,
                 calls, children, submissions, rejects>>

\* one turn of `while remaining_blocks:` up to its create_page, or the normal
\* return of upload_file and main.main when nothing remains
LoopTurn(rem, k, mid) ==
  IF rem # <<>>
  THEN /\ remaining_blocks' = RestOf(rem, max_blocks_per_page)
       /\ CreatePageCall(SubTitle(title, k), 0,
                         ChunkOf(rem, max_blocks_per_page), ParentForChunk(mid))
       /\ pc' = "chunk"
       /\ UNCHANGED <<exit_code, fault>>
  ELSE /\ remaining_blocks' = rem
       /\ cpc' = "idle"
       /\ Exit(0, "none")
       /\ UNCHANGED <<calls, children>>

\* _create_multiple_pages after the main page's create_page has returned
MainPageReturned ==
  /\ pc = "main_page" /\ cpc = "ret"
  /\ UNCHANGED <<cliVars, inputVars, splitVars, docVars, submissions, rejects>>
  /\ LET r == calls[Len(calls)] IN
     IF MainPageStops(r.result)
     THEN /\ Exit(1, IF r.result = "none" THEN "page_creation" ELSE "exception")
          /\ cpc' = "idle"
          /\ UNCHANGED <<loopVars, calls, children>>
     ELSE /\ main_page_id' = r.page
          /\ chunk_num' = 1
          /\ LoopTurn(RestAfterMain(blocks, max_blocks_per_page), 1, r.page)

\* the continuation loop after a chunk's create_page has returned
ChunkReturned ==
  /\ pc = "chunk" /\ cpc = "ret"
  /\ UNCHANGED <<cliVars, inputVars, splitVars, docVars, submissions, rejects,
                 main_page_id>>
  /\ LET r == calls[Len(calls)] IN
     IF ChunkStops(r.result)
     THEN /\ IF r.result = "none" THEN Exit(0, "page_creation")
                                  ELSE Exit(1, "exception")
          /\ cpc' = "idle"
          /\ UNCHANGED <<remaining_blocks, chunk_num, calls, children>>
     ELSE /\ chunk_num' = chunk_num + 1
          /\ LoopTurn(remaining_blocks, chunk_num + 1, main_page_id)

\* main.main: `except KeyboardInterrupt: sys.exit(1)` anywhere in the try
Interrupt ==
  /\ pc \in {"config", "validate", "new_uploader", "upload",
             "single", "main_page", "chunk"}
  /\ Exit(1, "interrupt")
  /\ cpc' = "idle"
  /\ UNCHANGED <<cliVars, inputVars, loopVars, splitVars, docVars,
                 calls, children, submissions, rejects>>

(* ------------------------------ cli.main ------------------------------ *)
CliReturn(code, f) ==
  /\ cli_pc' = "done"
  /\ cli_exit' = code
  /\ fault' = f

\* cli.main up to its try block: --config, the file checks, check_config;
\* then the dry run or the main.py subprocess is entered
CliMain ==
  /\ cli_pc = "start"
  /\ UNCHANGED <<entry, inputVars, loopVars, clientVars, splitVars, docVars, exit_code>>
  /\ \E c \in {"config_flag", "no_file", "not_found", "not_a_file",
               "bad_config", "dry_run", "upload", "spawn_error"} :
       CASE c = "config_flag" -> CliReturn(0, "none") /\ UNCHANGED pc
         [] c = "no_file"     -> CliReturn(1, "usage") /\ UNCHANGED pc
         [] c = "not_found"   -> CliReturn(1, "missing_file") /\ UNCHANGED pc
         [] c = "not_a_file"  -> CliReturn(1, "missing_file") /\ UNCHANGED pc
         [] c = "bad_config"  -> CliReturn(1, "config") /\ UNCHANGED pc
         [] c = "spawn_error" -> CliReturn(1, "exception") /\ UNCHANGED pc
         [] c = "dry_run"     -> /\ cli_pc' = "dry_run"
                                 /\ UNCHANGED <<cli_exit, fault, pc>>
         [] c = "upload"      -> /\ cli_pc' = "run"
                                 /\ pc' = "args"
                                 /\ UNCHANGED <<cli_exit, fault>>

\* the dry run reads the file and prints what it found
CliDryRun ==
  /\ cli_pc = "dry_run"
  /\ \E ok \in BOOLEAN :
       IF ok THEN CliReturn(0, "none") ELSE CliReturn(1, "exception")
  /\ UNCHANGED <<entry, pc, exit_code, inputVars, loopVars, clientVars,
                 splitVars, docVars>>

\* return result.returncode
CliSubprocessDone ==
  /\ cli_pc = "run" /\ pc = "done"
  /\ cli_pc' = "done"
  /\ cli_exit' = exit_code
  /\ UNCHANGED <<entry, mainVars, inputVars, loopVars, clientVars, splitVars, docVars>>

\* `except KeyboardInterrupt: return 130`
CliInterruptStatus == 130

\* Ctrl-C in cli.main's try block; subprocess.run ends the child, which (if it
\* still runs) leaves through its own KeyboardInterrupt handler
CliInterrupt ==
  /\ cli_pc \in {"dry_run", "run"}
  /\ CliReturn(CliInterruptStatus, "interrupt")
  /\ IF pc \in {"off", "done"}
     THEN UNCHANGED <<pc, exit_code, cpc>>
     ELSE pc' = "done" /\ exit_code' = 1 /\ cpc' = "idle"
  /\ UNCHANGED <<entry, inputVars, loopVars, splitVars, docVars,
                 calls, children, submissions, rejects>>

(* --------------------------- the whole run ---------------------------- *)
ClientIdle ==
  /\ cpc = "idle" /\ calls = <<>> /\ children = <<>>
  /\ submissions = <<>> /\ rejects = 0

LoopIdle == main_page_id = 0 /\ remaining_blocks = <<>> /\ chunk_num = 0

SplitIdle == text = <<>> /\ max_length = 0 /\ chunks = <<>> /\ split_pc = "off"

ParseIdle ==
  /\ parser_version = "current" /\ document = <<>> /\ doc_frontmatter = <<>>
  /\ doc_body = <<>> /\ path = "none" /\ doc_pc = "off"

ConvIdle ==
  /\ conv_version = "current"
  /\ max_rich_text_length = default_max_rich_text_length /\ md_text = <<>>
  /\ conv_parts = <<>>
  /\ tokens = <<>> /\ tok_i = 0 /\ conv_blocks = <<>>
  /\ processed_images = {} /\ resolver_env = "none" /\ resolver_calls = <<>>
  /\ conv_pc = "off" /\ conv_error = "" /\ conv_run = 1 /\ first_blocks = <<>>

TransIdle ==
  tr_text = <<>> /\ sections = <<>> /\ tr_blocks = <<>> /\ tr_pc = "off"

DocIdle == ParseIdle /\ ConvIdle /\ TransIdle

Init ==
  /\ entry \in {"cli", "main"}
  /\ cli_pc = (IF entry = "cli" THEN "start" ELSE "none")
  /\ pc = (IF entry = "cli" THEN "off" ELSE "args")
  /\ cli_exit = -1 /\ exit_code = -1 /\ fault = "none"
  /\ client_version \in {"v2", "current"}
  /\ max_blocks_per_page \in 1..MaxCap
  /\ title = <<>> /\ abstract = 0 /\ produced = <<>> /\ blocks = <<>>
  /\ LoopIdle /\ ClientIdle /\ SplitIdle /\ DocIdle

Next ==
  \/ CliMain \/ CliDryRun \/ CliSubprocessDone \/ CliInterrupt
  \/ MainParseArgs \/ MainConfig \/ MainValidateFile \/ MainNewUploader
  \/ UploadFile \/ SinglePageReturned \/ MainPageReturned \/ ChunkReturned
  \/ Interrupt
  \/ FirstSubmission \/ FallbackSubmission

Spec == Init /\ [][Next]_vars

(* ---------------------- one create_page call alone -------------------- *)
InitClient ==
  /\ entry = "none" /\ cli_pc = "none" /\ pc = "harness"
  /\ cli_exit = -1 /\ exit_code = -1 /\ fault = "none"
  /\ client_version \in {"v2", "current"}
  /\ max_blocks_per_page = 1
  /\ title = TitleTokens
  /\ abstract \in AbstractLens
  /\ produced = <<>>
  /\ blocks \in ClientBlockLists
  /\ LoopIdle /\ SplitIdle /\ DocIdle
  /\ \E parent_id \in {0, 1} :
       /\ calls = <<[title |-> title, abstract |-> abstract, blocks |-> blocks,
                     parent_id |-> parent_id, result |-> "pending", page |-> 0]>>
  /\ children = _preprocess_blocks(client_version, blocks)
  /\ cpc = "first"
  /\ submissions = <<>> /\ rejects = 0

NextClient == FirstSubmission \/ FallbackSubmission

SpecClient == InitClient /\ [][NextClient]_vars

(* ------------------- MarkdownParser.split_long_text ------------------- *)
\* the characters of the texts: two letters, a line feed, a carriage return
Chars == {"a", "b", "LF", "CR"}
Texts == SeqsUpTo(Chars, MaxTextLen)

\* the index of the last character of the line that starts at i: str.splitlines
\* ends a line after LF, after CR LF and after a CR alone
RECURSIVE LineEnd(_, _)
LineEnd(t, i) ==
  IF i >= Len(t) THEN Len(t)
  ELSE IF t[i] = "LF" THEN i
  ELSE IF t[i] = "CR" THEN (IF t[i + 1] = "LF" THEN i + 1 ELSE i)
  ELSE LineEnd(t, i + 1)

\* how many characters of the line t[i..e] are its line break
BreakLen(t, i, e) ==
  IF e < i THEN 0
  ELSE IF t[e] = "LF" THEN (IF e > i /\ t[e - 1] = "CR" THEN 2 ELSE 1)
  ELSE IF t[e] = "CR" THEN 1 ELSE 0

RECURSIVE LinesFrom(_, _, _)
LinesFrom(t, i, keepends) ==
  IF i > Len(t) THEN <<>>
  ELSE LET e == LineEnd(t, i)
           last == IF keepends THEN e ELSE e - BreakLen(t, i, e)
       IN <<SubSeq(t, i, last)>> \o LinesFrom(t, e + 1, keepends)

\* faulty variant: splitlines() without keepends
splitlines_without_ends(t) == LinesFrom(t, 1, FALSE)

\* text.splitlines(True)
splitlines(t) == LinesFrom(t, 1, TRUE)

\* `while len(line) > max_length`: the full pieces cut off the front of a line
RECURSIVE CutPieces(_, _)
CutPieces(line, n) ==
  IF Len(line) > n THEN <<Take(line, n)>> \o CutPieces(Drop(line, n), n)
  ELSE <<>>
\* and what is left of the line after the loop
RECURSIVE CutRest(_, _)
CutRest(line, n) == IF Len(line) > n THEN CutRest(Drop(line, n), n) ELSE line

\* the `for line in ...` loop from line i on, with the chunks and the current
\* chunk so far, and the final `if current_chunk`
RECURSIVE SplitLoop(_, _, _, _, _)
SplitLoop(lines, i, cs, current_chunk, n) ==
  IF i > Len(lines)
  THEN (IF current_chunk # <<>> THEN Append(cs, current_chunk) ELSE cs)
  ELSE LET line == lines[i] IN
       IF Len(current_chunk) + Len(line) > n
       THEN IF current_chunk # <<>>
            THEN SplitLoop(lines, i + 1, Append(cs, current_chunk), line, n)
            ELSE SplitLoop(lines, i + 1, cs \o CutPieces(line, n),
                           CutRest(line, n), n)
       ELSE SplitLoop(lines, i + 1, cs, current_chunk \o line, n)

split_long_text(t, n) ==
  IF Len(t) <= n THEN <<t>>
  ELSE SplitLoop(splitlines(t), 1, <<>>, <<>>, n)

InitSplit ==
  /\ entry = "none" /\ cli_pc = "none" /\ pc = "off"
  /\ cli_exit = -1 /\ exit_code = -1 /\ fault = "none"
  /\ client_version = "current" /\ max_blocks_per_page = 1
  /\ title = <<>> /\ abstract = 0 /\ produced = <<>> /\ blocks = <<>>
  /\ LoopIdle /\ ClientIdle /\ DocIdle
  /\ text \in Texts
  /\ max_length \in 1..MaxSplitLen
  /\ chunks = <<>>
  /\ split_pc = "call"

\* the call split_long_text(text, max_length)
SplitLongText ==
  /\ split_pc = "call"
  /\ chunks' = split_long_text(text, max_length)
  /\ split_pc' = "done"
  /\ UNCHANGED <<cliVars, mainVars, inputVars, loopVars, clientVars,
                 docVars, text, max_length>>

NextSplit == SplitLongText

SpecSplit == InitSplit /\ [][NextSplit]_vars

(* ---------------- MarkdownParser.parse_frontmatter_and_body ----------- *)
\* A document is a sequence of lines, each ended by a line feed.  A line is
\* [kind, val]:
\*   "dash"        ---
\*   "blank"       the empty line
\*   "plain"       a line of text with no colon
\*   "kv"          execution_time: <val>
\*   "exec"        the execution header with date and time <val>
\*   "exec_nodate" the execution header followed by text that is no date
\*   "host"        the bold connection-host label followed by <val>
\*   "pfile"       the bold prompt-file label followed by <val>
\*   "prompt_h"    the level-3 prompt heading
\*   "result_h"    the level-3 result heading
Line(k, v) == [kind |-> k, val |-> v]

LineKinds ==
  { Line("dash", ""), Line("blank", ""), Line("plain", ""),
    Line("kv", "t1"), Line("exec", "t2"), Line("exec_nodate", "x"),
    Line("host", "h1"), Line("pfile", "p1"),
    Line("prompt_h", ""), Line("result_h", "") }

Documents == SeqsUpTo(LineKinds, MaxDocLines)

IsDash(l) == l.kind = "dash"

\* ':' in line
HasColon(l) == l.kind \in {"kv", "exec", "exec_nodate", "host", "pfile"}

\* key, val = line.split(':', 1), both stripped
FmKey(l) ==
  CASE l.kind = "kv" -> "execution_time"
    [] l.kind \in {"exec", "exec_nodate"} -> "## execution record"
    [] l.kind = "host" -> "**connection host"
    [] l.kind = "pfile" -> "**prompt file"

FmVal(l) ==
  IF l.kind \in {"host", "pfile"} THEN "** " \o l.val ELSE l.val

MinOf(S) == CHOOSE x \in S : \A y \in S : x <= y

\* the first line from the second on that is not blank (Len + 1 if none)
FirstNonBlank(ls) ==
  MinOf({ i \in 2..Len(ls) : ls[i].kind # "blank" } \cup {Len(ls) + 1})

\* re.match(r"^---\s*\n(.+?)\n---\s*\n(.*)$", text, flags=re.S): the index of
\* the line that closes the header, 0 when the text does not match.  \s*
\* first skips the blank lines after the opening line, (.+?) then runs to
\* the first later --- line; when there is none, the match backs up into the
\* blank lines, which are a non-empty group 1 if there are two of them.
HeaderClose(ls) ==
  IF Len(ls) < 3 \/ ~IsDash(ls[1]) THEN 0
  ELSE LET k == FirstNonBlank(ls)
           after == { j \in (k + 1)..Len(ls) : IsDash(ls[j]) }
       IN  IF after # {} THEN MinOf(after)
           ELSE IF k <= Len(ls) /\ IsDash(ls[k]) /\ k >= 4 THEN k
           ELSE 0

\* group 1: the lines between the opening line and the closing line
FmContent(ls) == SubSeq(ls, 2, HeaderClose(ls) - 1)

RECURSIVE StripBlank(_)
StripBlank(ls) ==
  IF ls # <<>> /\ Head(ls).kind = "blank" THEN StripBlank(Tail(ls)) ELSE ls

\* group 2: what follows the closing line; its \s* takes the blank lines
FmBody(ls) == StripBlank(Drop(ls, HeaderClose(ls)))

EmptyDict == [k \in {} |-> ""]

\* a.update(b)
DictUpdate(a, b) ==
  [k \in DOMAIN a \cup DOMAIN b |-> IF k \in DOMAIN b THEN b[k] ELSE a[k]]

\* for line in fm_content.splitlines(): frontmatter[key.strip()] = val.strip()
RECURSIVE FmLoop(_, _)
FmLoop(ls, fm) ==
  IF ls = <<>> THEN fm
  ELSE FmLoop(Tail(ls),
              IF HasColon(Head(ls))
              THEN DictUpdate(fm, [k \in {FmKey(Head(ls))} |-> FmVal(Head(ls))])
              ELSE fm)

\* re.search(pattern, text).group(1) for the pattern of a line kind
FirstOf(ls, kind) ==
  LET I == { i \in DOMAIN ls : ls[i].kind = kind } IN ls[MinOf(I)].val

Extracted == [exec |-> "execution_time", host |-> "connection_host",
              pfile |-> "prompt_file"]

_extract_execution_metadata(ls) ==
  LET found == { kd \in DOMAIN Extracted : \E i \in DOMAIN ls : ls[i].kind = kd }
  IN  [k \in { Extracted[kd] : kd \in found } |->
         FirstOf(ls, CHOOSE kd \in found : Extracted[kd] = k)]

\* execution_metadata = _extract_execution_metadata(body);
\* if execution_metadata: frontmatter.update(execution_metadata)
MergeExecutionMetadata(fm, extracted) == DictUpdate(fm, extracted)

HasHeader(ls) == HeaderClose(ls) # 0

parse_frontmatter_and_body(version, ls) ==
  LET fm == IF HasHeader(ls) THEN FmLoop(FmContent(ls), EmptyDict)
            ELSE EmptyDict
      bd == IF HasHeader(ls) THEN FmBody(ls) ELSE ls
  IN  [frontmatter |-> IF version = "v3"
                       THEN MergeExecutionMetadata(fm,
                              _extract_execution_metadata(bd))
                       ELSE fm,
       body |-> bd]

(* ------------- NotionBlockConverter.convert_markdown_to_blocks -------- *)
\* patterns of _is_remote_claude_format, by the line kind each one matches
patterns == {"exec", "host", "pfile", "prompt_h", "result_h"}

\* faulty variant: every matching line counts, not every matching pattern
MatchesPerLine(ls) == Cardinality({ i \in DOMAIN ls : ls[i].kind \in patterns })

\* sum(1 for pattern in patterns if re.search(pattern, md_text))
Matches(ls) ==
  Cardinality({ p \in patterns : \E i \in DOMAIN ls : ls[i].kind = p })

_is_remote_claude_format(ls) == Matches(ls) >= 3

(* ------------------- a document parsed and routed --------------------- *)
ParseFrontmatterAndBody ==
  /\ doc_pc = "parse"
  /\ LET r == parse_frontmatter_and_body(parser_version, document)
     IN  doc_frontmatter' = r.frontmatter /\ doc_body' = r.body
  /\ doc_pc' = "convert"
  /\ UNCHANGED <<cliVars, mainVars, inputVars, loopVars, clientVars, splitVars,
                 convVars, transVars, parser_version, document, path>>

\* convert_markdown_to_blocks(body, md_dir): the branch it takes
ConvertRoute ==
  /\ doc_pc = "convert"
  /\ path' = IF _is_remote_claude_format(doc_body) THEN "transcript"
             ELSE "standard"
  /\ doc_pc' = "done"
  /\ UNCHANGED <<cliVars, mainVars, inputVars, loopVars, clientVars, splitVars,
                 convVars, transVars, parser_version, document, doc_frontmatter,
                 doc_body>>

RunIdle ==
  /\ entry = "none" /\ cli_pc = "none" /\ pc = "off"
  /\ cli_exit = -1 /\ exit_code = -1 /\ fault = "none"
  /\ client_version = "current"
  /\ max_blocks_per_page = default_max_blocks_per_page
  /\ title = <<>> /\ abstract = 0 /\ produced = <<>> /\ blocks = <<>>
  /\ LoopIdle /\ ClientIdle

InitDoc ==
  /\ RunIdle /\ SplitIdle /\ ConvIdle /\ TransIdle
  /\ parser_version \in {"v3", "current"}
  /\ document \in Documents
  /\ doc_frontmatter = <<>> /\ doc_body = <<>> /\ path = "none"
  /\ doc_pc = "parse"

NextDoc == ParseFrontmatterAndBody \/ ConvertRoute

SpecDoc == InitDoc /\ [][NextDoc]_vars

(* ------------------- NotionBlockConverter: the input ------------------ *)
\* A text is a sequence of units: the letters "a" and "b", the white space
\* "SP" and "LF", the dollar sign "$", "DOC" (a document-level command
\* such as \documentclass or \section{ ), "ENV" (a math-environment opening
\* such as \begin{equation ), "IMG_L" (an image reference to the local file
\* p.png), "IMG_R" (an image reference to an http URL), "*" and ":", and
\* the links "LNK_P", "LNK_V" and "LNK_Q" ([label](url), see Links), and
\* the brackets "[[" and "]]" of a wiki link.
White == {"SP", "LF"}

\* str.strip()
RECURSIVE LStrip(_)
LStrip(s) == IF s # <<>> /\ Head(s) \in White THEN LStrip(Tail(s)) ELSE s

RECURSIVE RStrip(_)
RStrip(s) ==
  IF s # <<>> /\ s[Len(s)] \in White THEN RStrip(SubSeq(s, 1, Len(s) - 1))
  ELSE s

Strip(s) == LStrip(RStrip(s))

Contains(s, u) == \E i \in DOMAIN s : s[i] = u

\* a run of letters longer than every maximum tried
LongText == [i \in 1..(MaxRichText + 1) |-> IF i % 2 = 1 THEN "a" ELSE "b"]

\* A token of markdown-it: its type, its content, its info string (a fence)
Token(t, c, info) == [type |-> t, content |-> c, info |-> info]
Tok(t) == Token(t, <<>>, "")
Inline(c) == Token("inline", c, "")

InlineItem(c) ==
  <<Tok("list_item_open"), Tok("paragraph_open"), Inline(c),
    Tok("paragraph_close"), Tok("list_item_close")>>

\* The markup elements of a body and the tokens MarkdownIt.parse gives for
\* each: headings, paragraphs (text, inline math, images), code fences, a
\* rule, block quotes (one paragraph, or none), and bullet lists with one
\* item: a text, nothing, a code fence alone, a link, two links after a
\* text, a bold label and a value, a text and a nested list.
Elements ==
  [ h_short   |-> <<Token("heading_open", <<>>, "h4"), Inline(<<"a">>), Tok("heading_close")>>,
    h_long    |-> <<Token("heading_open", <<>>, "h2"), Inline(LongText), Tok("heading_close")>>,
    p_short   |-> <<Tok("paragraph_open"), Inline(<<"a">>), Tok("paragraph_close")>>,
    p_long    |-> <<Tok("paragraph_open"), Inline(LongText), Tok("paragraph_close")>>,
    p_math    |-> <<Tok("paragraph_open"), Inline(<<"a", "b", "$", "a", "$", "b">>),
                    Tok("paragraph_close")>>,
    p_wiki    |-> <<Tok("paragraph_open"), Inline(<<"a", "[[", "b", "]]">>),
                    Tok("paragraph_close")>>,
    p_local   |-> <<Tok("paragraph_open"), Inline(<<"IMG_L">>), Tok("paragraph_close")>>,
    p_remote  |-> <<Tok("paragraph_open"), Inline(<<"IMG_R">>), Tok("paragraph_close")>>,
    f_math    |-> <<Token("fence", <<"a", "LF">>, "math")>>,
    f_mathdoc |-> <<Token("fence", <<"DOC", "a", "LF">>, "math")>>,
    f_mathlong |-> <<Token("fence", LongText \o <<"LF">>, "math")>>,
    f_code    |-> <<Token("fence", <<"a", "LF">>, "python")>>,
    f_codelong |-> <<Token("fence", LongText \o <<"LF">>, "python")>>,
    f_env     |-> <<Token("fence", <<"ENV", "LF">>, "python")>>,
    f_latexdoc |-> <<Token("fence", <<"DOC", "a", "LF">>, "latex")>>,
    f_docenv  |-> <<Token("fence", <<"DOC", "ENV", "LF">>, "python")>>,
    hr        |-> <<Tok("hr")>>,
    q_text    |-> <<Tok("blockquote_open"), Tok("paragraph_open"), Inline(<<"a">>),
                    Tok("paragraph_close"), Tok("blockquote_close")>>,
    q_empty   |-> <<Tok("blockquote_open"), Tok("blockquote_close")>>,
    l_text    |-> <<Tok("bullet_list_open")>> \o InlineItem(<<"a">>)
                    \o <<Tok("bullet_list_close")>>,
    l_empty   |-> <<Tok("bullet_list_open"), Tok("list_item_open"),
                    Tok("list_item_close"), Tok("bullet_list_close")>>,
    l_fence   |-> <<Tok("bullet_list_open"), Tok("list_item_open"),
                    Token("fence", <<"a", "LF">>, ""), Tok("list_item_close"),
                    Tok("bullet_list_close")>>,
    l_video   |-> <<Tok("bullet_list_open")>> \o InlineItem(<<"LNK_V">>)
                    \o <<Tok("bullet_list_close")>>,
    l_query   |-> <<Tok("bullet_list_open")>> \o InlineItem(<<"LNK_Q">>)
                    \o <<Tok("bullet_list_close")>>,
    l_two     |-> <<Tok("bullet_list_open")>>
                    \o InlineItem(<<"a", "SP", "LNK_P", "SP", "LNK_V">>)
                    \o <<Tok("bullet_list_close")>>,
    l_label   |-> <<Tok("bullet_list_open")>>
                    \o InlineItem(<<"*", "*", "a", ":", "*", "*", "SP", "LNK_P">>)
                    \o <<Tok("bullet_list_close")>>,
    l_nested  |-> <<Tok("bullet_list_open"), Tok("list_item_open"),
                    Tok("paragraph_open"), Inline(<<"a">>), Tok("paragraph_close"),
                    Tok("bullet_list_open")>> \o InlineItem(<<"b">>)
                    \o <<Tok("bullet_list_close"), Tok("list_item_close"),
                         Tok("bullet_list_close")>> ]

\* The block-math spans of a body and what stands between their $$ pairs:
\* "m_x" is $$ bb $$ and "m_blank" is $$ $$.
BlockMath == [ m_x |-> <<"SP", "b", "b", "SP">>, m_blank |-> <<"SP">> ]

\* "callout" is the line > [!NOTE], which _process_callouts rewrites before
\* the text is tokenized
ElementNames == DOMAIN Elements \cup DOMAIN BlockMath \cup {"callout"}

Bodies == SeqsUpTo(ElementNames, MaxElements)
(* ------------------- NotionBlockConverter: the blocks ----------------- *)
\* A converter block is [type, rich_text, expression, url, language]; the
\* fields a kind of block does not have are empty.
CBlock(t, rt, e, u, lang) ==
  [type |-> t, rich_text |-> rt, expression |-> e, url |-> u, language |-> lang]
TextBlock(t, c) == CBlock(t, <<TextSpan(c)>>, <<>>, "", "")
EquationBlock(e) == CBlock("equation", <<>>, e, "", "")
EquationSpan(e) == [type |-> "equation", content |-> e]
ImageBlock(u) == CBlock("image", <<>>, <<>>, u, "")
CodeBlock(lang, c) == CBlock("code", <<TextSpan(c)>>, <<>>, "", lang)
DividerBlock == CBlock("divider", <<>>, <<>>, "", "")

\* the result of a handler: the index to go on at, the blocks so far, and
\* the exception it raised ("" when it returned)
Ret(i, bs) == [i |-> i, blocks |-> bs, err |-> ""]
Raise(e, bs) == [i |-> 0, blocks |-> bs, err |-> e]

\* tokens[i] with Python's index from 0
At(toks, i) == toks[i + 1]

(* ---- _process_heading ---- *)
HeadingLevel == [h1 |-> 1, h2 |-> 2, h3 |-> 3, h4 |-> 4, h5 |-> 5, h6 |-> 6]

HeadingType(version, lvl) ==
  IF version = "v2" /\ lvl > 3 THEN "paragraph"
  ELSE CASE Min(lvl, 3) = 1 -> "heading_1"
         [] Min(lvl, 3) = 2 -> "heading_2"
         [] Min(lvl, 3) = 3 -> "heading_3"

_process_heading(version, toks, i, bs) ==
  IF i + 1 >= Len(toks) THEN Raise("IndexError", bs)
  ELSE Ret(i + 3,
           Append(bs, TextBlock(HeadingType(version, HeadingLevel[At(toks, i).info]),
                                At(toks, i + 1).content)))

(* ---- _process_code_block ---- *)
\* backup_v2 _determine_code_language, for the info strings of the bodies
_determine_code_language(info) ==
  IF info = "" THEN "plain text" ELSE info

\* backup_v2 _is_math_block: a document-level command makes it code; then
\* the tag math makes it math; then three indicators or a math environment
latex_document_indicators == {"DOC"}
math_indicators == {"ENV"}
math_env_patterns == {"ENV"}

_is_math_block(lang, code) ==
  IF \E u \in latex_document_indicators : Contains(Strip(code), u) THEN FALSE
  ELSE IF lang = "math" THEN TRUE
  ELSE IF Cardinality({ u \in math_indicators : Contains(Strip(code), u) }) >= 3
       THEN TRUE
  ELSE \E u \in math_env_patterns : Contains(Strip(code), u)

\* the length of the note between the parts of a split code block:
\* an opening bracket, nine characters, a space, "1/2", a closing bracket
SplitNoteLen == 15
SplitNote == [k \in 1..SplitNoteLen |-> "n"]

\* backup_v2 _process_long_code_block
RECURSIVE LongCodeLoop(_, _, _, _)
LongCodeLoop(parts, idx, lang, bs) ==
  IF idx > Len(parts) THEN bs
  ELSE LongCodeLoop(parts, idx + 1, lang,
         Append(bs, CodeBlock(lang, parts[idx]))
           \o (IF idx < Len(parts) THEN <<TextBlock("paragraph", SplitNote)>>
               ELSE <<>>))

\* src/src language_mapping, for the info strings of the bodies
NormalizedLanguage(info) == IF info = "" THEN "plain text" ELSE info

_process_code_block(version, maxlen, toks, i, bs) ==
  LET token == At(toks, i)
      code == token.content
  IN  IF version = "v2"
      THEN LET lang == _determine_code_language(token.info)
           IN  IF _is_math_block(lang, code)
               THEN Ret(i + 1, Append(bs, EquationBlock(Strip(code))))
               ELSE IF Len(code) > maxlen
               THEN Ret(i + 1, LongCodeLoop(split_long_text(code, maxlen), 1,
                                            lang, bs))
               ELSE Ret(i + 1, Append(bs, CodeBlock(lang, code)))
      ELSE IF NormalizedLanguage(token.info) \in {"math", "latex", "tex"}
           THEN Ret(i + 1, Append(bs, EquationBlock(code)))
           ELSE Ret(i + 1, Append(bs, CodeBlock(NormalizedLanguage(token.info),
                                                code)))

(* ---- _process_blockquote ---- *)
RECURSIVE TextBlocks(_, _)
TextBlocks(t, parts) ==
  IF parts = <<>> THEN <<>>
  ELSE <<TextBlock(t, Head(parts))>> \o TextBlocks(t, Tail(parts))

\* src/src: the while loop that gathers the paragraphs of the quote
RECURSIVE QuoteLoop(_, _, _)
QuoteLoop(toks, i, content_lines) ==
  IF i < Len(toks) /\ At(toks, i).type # "blockquote_close"
  THEN IF At(toks, i).type = "paragraph_open"
       THEN QuoteLoop(toks, i + 3,
                      IF i + 1 < Len(toks)
                      THEN Append(content_lines, At(toks, i + 1).content)
                      ELSE content_lines)
       ELSE QuoteLoop(toks, i + 1, content_lines)
  ELSE [i |-> i, content_lines |-> content_lines]

\* '\n'.join(content_lines)
RECURSIVE JoinLF(_)
JoinLF(ls) ==
  IF ls = <<>> THEN <<>>
  ELSE IF Len(ls) = 1 THEN ls[1]
  ELSE ls[1] \o <<"LF">> \o JoinLF(Tail(ls))

_process_blockquote(version, maxlen, toks, i, bs) ==
  IF version = "v2"
  THEN IF i + 2 >= Len(toks) THEN Raise("IndexError", bs)
       ELSE Ret(i + 5,
                bs \o TextBlocks("quote",
                        split_long_text(At(toks, i + 2).content, maxlen)))
  ELSE LET r == QuoteLoop(toks, i + 1, <<>>)
       IN  Ret(r.i + 1,
               IF r.content_lines # <<>>
               THEN Append(bs, TextBlock("quote", JoinLF(r.content_lines)))
               ELSE bs)

(* ---- _process_markdown_links_as_labeled_bookmarks ---- *)
\* Config.video_domains
video_domains == {"youtube.com", "youtu.be", "vimeo.com"}

\* The links of the bodies: the label, the URL, and the URL in pieces, the
\* domain first.  LNK_Q names a video domain in its query only.
Links ==
  [ LNK_P |-> [text |-> <<"a">>, url |-> "https://r.org/x",
               pieces |-> <<"r.org", "/x">>],
    LNK_V |-> [text |-> <<"b">>, url |-> "https://youtu.be/x",
               pieces |-> <<"youtu.be", "/x">>],
    LNK_Q |-> [text |-> <<"a", "b">>, url |-> "https://r.org/?u=youtube.com",
               pieces |-> <<"r.org", "/?u=", "youtube.com">>] ]

ImageUnits == {"IMG_L", "IMG_R"}
IsRemote(u) == u = "IMG_R"
\* the src of an image reference
RawOf(u) == IF u = "IMG_R" THEN "http://r" ELSE "p.png"

\* the pieces of a URL of the bodies
UrlPieces(url) ==
  IF \E l \in DOMAIN Links : Links[l].url = url
  THEN Links[CHOOSE l \in DOMAIN Links : Links[l].url = url].pieces
  ELSE <<url>>

\* MarkdownParser.is_video_link:
\* bool(url) and any(domain in url for domain in video_domains)
is_video_link(url) ==
  url # "" /\ \E domain \in video_domains : Contains(UrlPieces(url), domain)

\* extract_markdown_links: the matches of \[(.*?)\]\((.*?)\), which also
\* matches the tail of an image reference ![](src) with an empty label
LinkText(u) == IF u \in ImageUnits THEN <<>> ELSE Links[u].text
LinkUrl(u) == IF u \in ImageUnits THEN RawOf(u) ELSE Links[u].url

\* a paragraph with the label, then an embed or a bookmark with the URL
RECURSIVE LinkBlocks(_)
LinkBlocks(txt) ==
  IF txt = <<>> THEN <<>>
  ELSE (IF Head(txt) \in ImageUnits \cup DOMAIN Links
        THEN <<TextBlock("paragraph", LinkText(Head(txt))),
               CBlock(IF is_video_link(LinkUrl(Head(txt))) THEN "embed"
                      ELSE "bookmark",
                      <<>>, <<>>, LinkUrl(Head(txt)), "")>>
        ELSE <<>>) \o LinkBlocks(Tail(txt))

(* ---- _process_list ---- *)
\* txt.startswith('**') and ':' in txt
IsLabelItem(txt) ==
  Len(txt) >= 2 /\ txt[1] = "*" /\ txt[2] = "*" /\ Contains(txt, ":")

ListCloses == {"bullet_list_close", "ordered_list_close"}

ListType(tok) ==
  IF tok.type = "ordered_list_open" THEN "numbered_list_item"
  ELSE "bulleted_list_item"

\* backup_v2: while tokens[i].type not in (...): no test of i against the end
RECURSIVE ListLoopV2(_, _, _, _)
ListLoopV2(toks, i, list_type, bs) ==
  IF i >= Len(toks) THEN Raise("IndexError", bs)
  ELSE IF At(toks, i).type \in ListCloses THEN Ret(i + 1, bs)
  ELSE IF At(toks, i).type = "list_item_open"
  THEN IF i + 2 >= Len(toks) THEN Raise("IndexError", bs)
       ELSE LET txt == At(toks, i + 2).content
            IN  ListLoopV2(toks, i + 5, list_type,
                  IF ~IsLabelItem(txt) /\ LinkBlocks(txt) # <<>>
                  THEN bs \o LinkBlocks(txt)
                  ELSE Append(bs, TextBlock(list_type, txt)))
  ELSE ListLoopV2(toks, i + 1, list_type, bs)

\* src/src: while i < len(tokens) and tokens[i].type not in (...)
RECURSIVE ListLoop(_, _, _, _)
ListLoop(toks, i, list_type, bs) ==
  IF i < Len(toks) /\ At(toks, i).type \notin ListCloses
  THEN IF At(toks, i).type = "list_item_open"
       THEN ListLoop(toks, i + 5, list_type,
                     IF i + 2 < Len(toks)
                     THEN Append(bs, TextBlock(list_type, At(toks, i + 2).content))
                     ELSE bs)
       ELSE ListLoop(toks, i + 1, list_type, bs)
  ELSE Ret(i + 1, bs)

_process_list(version, toks, i, bs) ==
  IF version = "v2" THEN ListLoopV2(toks, i + 1, ListType(At(toks, i)), bs)
  ELSE ListLoop(toks, i + 1, ListType(At(toks, i)), bs)
(* ---- ImageUploader.get_image_url ---- *)
placeholder == "placeholder"

\* the file names _upload_to_ftp can make of int(time.time()) and uuid4()
FtpNames == {"f1", "f2"}

\* What the resolver meets: "missing" (the file is not there), "ftp" (FTP
\* is configured and the upload works), "imgbb" (no URL from FTP, ImgBB is
\* configured and answers with a URL), "none" (the file is there and no
\* upload gives a URL)
ResolverEnvs == {"missing", "ftp", "imgbb", "none"}

\* What the call returns; name is the file name _upload_to_ftp makes
get_image_url(env, name) ==
  CASE env = "missing" -> ""
    [] env = "ftp" -> "ftp/" \o name
    [] env = "imgbb" -> "imgbb"
    [] env = "none" -> placeholder

(* ---- _process_paragraph ---- *)
\* re.finditer(r'\$([^$\n]+)\$', txt): the positions of the two dollar signs
\* of every match, from position p on
FirstStop(txt, p) ==
  MinOf({ q \in (p + 1)..Len(txt) : txt[q] \in {"$", "LF"} } \cup {Len(txt) + 1})

RECURSIVE MathFrom(_, _)
MathFrom(txt, p) ==
  IF p > Len(txt) THEN <<>>
  ELSE IF txt[p] = "$"
  THEN LET stop == FirstStop(txt, p)
       IN  IF stop <= Len(txt) /\ txt[stop] = "$" /\ stop > p + 1
           THEN <<[s |-> p, e |-> stop]>> \o MathFrom(txt, stop + 1)
           ELSE MathFrom(txt, p + 1)
  ELSE MathFrom(txt, p + 1)

\* src/src _process_inline_math: one paragraph, a span for every piece
RECURSIVE MathSpans(_, _, _)
MathSpans(txt, matches, last) ==
  IF matches = <<>>
  THEN IF last < Len(txt) THEN <<TextSpan(SubSeq(txt, last + 1, Len(txt)))>>
       ELSE <<>>
  ELSE LET m == Head(matches)
       IN  (IF m.s - 1 > last THEN <<TextSpan(SubSeq(txt, last + 1, m.s - 1))>>
            ELSE <<>>)
           \o <<EquationSpan(SubSeq(txt, m.s + 1, m.e - 1))>>
           \o MathSpans(txt, Tail(matches), m.e)

\* backup_v2 _process_inline_math: a block for every piece
RECURSIVE MathBlocks(_, _, _)
MathBlocks(txt, matches, last) ==
  IF matches = <<>>
  THEN IF last < Len(txt) /\ Strip(SubSeq(txt, last + 1, Len(txt))) # <<>>
       THEN <<TextBlock("paragraph", Strip(SubSeq(txt, last + 1, Len(txt))))>>
       ELSE <<>>
  ELSE LET m == Head(matches)
       IN  (IF m.s - 1 > last /\ Strip(SubSeq(txt, last + 1, m.s - 1)) # <<>>
            THEN <<TextBlock("paragraph", Strip(SubSeq(txt, last + 1, m.s - 1)))>>
            ELSE <<>>)
           \o <<EquationBlock(SubSeq(txt, m.s + 1, m.e - 1))>>
           \o MathBlocks(txt, Tail(matches), m.e)

\* backup_v2 _process_paragraph_text
_process_paragraph_text(maxlen, txt, bs) ==
  IF LinkBlocks(txt) # <<>> THEN bs \o LinkBlocks(txt)
  ELSE bs \o TextBlocks("paragraph", split_long_text(txt, maxlen))

\* the result of a handler that may resolve an image: imgs is
\* processed_images, calls the sources given to get_image_url so far
ImgRet(i, bs, imgs, calls_) ==
  [i |-> i, blocks |-> bs, err |-> "", imgs |-> imgs, calls |-> calls_]

\* backup_v2: for child in token.children: the image children, each source
\* once (url is what get_image_url returns if it is called)
RECURSIVE Images(_, _, _, _, _)
Images(units, bs, imgs, calls_, url) ==
  IF units = <<>>
  THEN [blocks |-> bs, imgs |-> imgs, calls |-> calls_, has |-> FALSE]
  ELSE LET u == Head(units)
       IN  IF u \notin ImageUnits THEN Images(Tail(units), bs, imgs, calls_, url)
           ELSE LET fresh == RawOf(u) \notin imgs
                    src == IF IsRemote(u) THEN RawOf(u) ELSE url
                    r == Images(Tail(units),
                                IF fresh /\ src # "" THEN Append(bs, ImageBlock(src))
                                ELSE bs,
                                imgs \cup {RawOf(u)},
                                IF fresh /\ ~IsRemote(u)
                                THEN Append(calls_, RawOf(u)) ELSE calls_,
                                url)
                IN  [r EXCEPT !.has = TRUE]

_process_paragraph(version, maxlen, toks, i, bs, imgs, calls_, url) ==
  IF version = "v2"
  THEN IF i + 1 >= Len(toks) THEN Raise("IndexError", bs)
       ELSE LET txt == Strip(At(toks, i + 1).content)
                matches == MathFrom(txt, 1)
                im == Images(At(toks, i + 1).content, bs, imgs, calls_, url)
            IN  IF txt = <<>> THEN ImgRet(i + 3, bs, imgs, calls_)
                ELSE IF matches # <<>>
                THEN ImgRet(i + 3, bs \o MathBlocks(txt, matches, 0), imgs, calls_)
                ELSE IF im.has THEN ImgRet(i + 3, im.blocks, im.imgs, im.calls)
                ELSE ImgRet(i + 3, _process_paragraph_text(maxlen, txt, bs),
                            imgs, calls_)
  ELSE IF i + 1 >= Len(toks) THEN ImgRet(i + 2, bs, imgs, calls_)
       ELSE LET txt == Strip(At(toks, i + 1).content)
                I == { k \in DOMAIN txt : txt[k] \in ImageUnits }
                u == txt[MinOf(I)]
                matches == MathFrom(txt, 1)
            IN  IF txt = <<>> THEN ImgRet(i + 2, bs, imgs, calls_)
                ELSE IF I # {}
                THEN IF IsRemote(u)
                     THEN ImgRet(i + 2, Append(bs, ImageBlock(RawOf(u))), imgs, calls_)
                     ELSE ImgRet(i + 2, Append(bs, ImageBlock(url)), imgs,
                                 Append(calls_, RawOf(u)))
                ELSE IF matches # <<>>
                THEN ImgRet(i + 2,
                            Append(bs, CBlock("paragraph", MathSpans(txt, matches, 0),
                                              <<>>, "", "")),
                            imgs, calls_)
                ELSE ImgRet(i + 2, Append(bs, TextBlock("paragraph", txt)),
                            imgs, calls_)

\* backup_v2 _process_inline: a stray inline token of the walk
_process_inline(maxlen, toks, i, bs, imgs, calls_, url) ==
  LET im == Images(At(toks, i).content, bs, imgs, calls_, url)
      txt == Strip(At(toks, i).content)
  IN  IF im.blocks # bs THEN ImgRet(i + 1, im.blocks, im.imgs, im.calls)
      ELSE IF txt # <<>>
      THEN ImgRet(i + 1, _process_paragraph_text(maxlen, txt, im.blocks),
                  im.imgs, im.calls)
      ELSE ImgRet(i + 1, im.blocks, im.imgs, im.calls)
(* ---- _process_callouts ---- *)
\* the paragraph backup_v2 makes of the line > [!NOTE]: two asterisks, the
\* emoji, a space, "Note", two asterisks
CalloutTitle == <<"*", "*", "E", "SP", "N", "o", "t", "e", "*", "*">>

\* the tokens MarkdownIt.parse gives for the body after _process_callouts
RECURSIVE Tokenize(_)
Tokenize(els) ==
  IF els = <<>> THEN <<>>
  ELSE (IF Head(els) = "callout"
        THEN <<Tok("paragraph_open"), Inline(CalloutTitle), Tok("paragraph_close")>>
        ELSE Elements[Head(els)]) \o Tokenize(Tail(els))
(* ------------------ convert_markdown_to_blocks, one run ---------------- *)
\* re.sub(r"\[\[(.+?)\]\]", r"\1", md_text): the first ]] that stands at
\* least one unit after a [[ closes it, and the two brackets are dropped
RECURSIVE SubWikiLinks(_)
SubWikiLinks(txt) ==
  IF txt = <<>> THEN <<>>
  ELSE LET closes == { q \in 3..Len(txt) : txt[q] = "]]" }
       IN  IF Head(txt) = "[[" /\ closes # {}
           THEN SubSeq(txt, 2, MinOf(closes) - 1)
                \o SubWikiLinks(SubSeq(txt, MinOf(closes) + 1, Len(txt)))
           ELSE <<Head(txt)>> \o SubWikiLinks(Tail(txt))

\* the substitution over the text, seen in the tokens of the text
WithoutWikiLinks(toks) ==
  [k \in DOMAIN toks |-> [toks[k] EXCEPT !.content = SubWikiLinks(@)]]

\* block_math_pattern \$\$\s*(.*?)\s*\$\$: group 1 of a match
BlockMathGroup(inner) == Strip(inner)

\* a part of the split: a text (elements) or group 1 of a match (expr)
TextPart(els) == [math |-> FALSE, els |-> els, expr |-> <<>>]
MathPart(e) == [math |-> TRUE, els |-> <<>>, expr |-> e]

\* faulty variant: the group of a match is put before the text before it
RECURSIVE SplitMathFirst(_, _)
SplitMathFirst(els, cur) ==
  IF els = <<>> THEN <<TextPart(cur)>>
  ELSE IF Head(els) \in DOMAIN BlockMath
  THEN <<MathPart(BlockMathGroup(BlockMath[Head(els)])), TextPart(cur)>>
         \o SplitMathFirst(Tail(els), <<>>)
  ELSE SplitMathFirst(Tail(els), Append(cur, Head(els)))

\* re.split(block_math_pattern, md_text): a text, a group, a text, ...
\* (backup_v2 walks the matches of re.finditer and the texts between them,
\* which are the same pieces)
RECURSIVE SplitAtBlockMath(_, _)
SplitAtBlockMath(els, cur) ==
  IF els = <<>> THEN <<TextPart(cur)>>
  ELSE IF Head(els) \in DOMAIN BlockMath
  THEN <<TextPart(cur), MathPart(BlockMathGroup(BlockMath[Head(els)]))>>
         \o SplitAtBlockMath(Tail(els), <<>>)
  ELSE SplitAtBlockMath(Tail(els), Append(cur, Head(els)))

\* convert_markdown_to_blocks up to the split at block math.  The bodies
\* hold no transcript line, so preprocessing leaves the text as it is; the
\* substitution of the wiki links is applied where a part is parsed;
\* _process_callouts rewrites the line > [!NOTE], for which src/src reads
\* self.parser.CALLOUT_TYPES, an attribute src/src MarkdownParser lacks.
ConvertStart ==
  /\ conv_pc = "start"
  /\ IF conv_version = "current" /\ Contains(md_text, "callout")
     THEN /\ conv_pc' = "raised" /\ conv_error' = "AttributeError"
          /\ UNCHANGED conv_parts
     ELSE /\ conv_parts' = SplitAtBlockMath(md_text, <<>>)
          /\ conv_pc' = "walk"
          /\ UNCHANGED conv_error
  /\ tokens' = <<>> /\ tok_i' = 0 /\ conv_blocks' = <<>>
  /\ UNCHANGED <<cliVars, mainVars, inputVars, loopVars, clientVars, splitVars,
                 transVars, parseVars, conv_version, max_rich_text_length, md_text,
                 processed_images, resolver_env, resolver_calls, conv_run,
                 first_blocks>>

\* the walk of a part is over and the next part is a text: a blank text is
\* passed over, any other is parsed (tokens = self.md.parse(part))
ParsePart ==
  /\ conv_pc = "walk" /\ tok_i >= Len(tokens)
  /\ conv_parts # <<>> /\ ~Head(conv_parts).math
  /\ tokens' = WithoutWikiLinks(Tokenize(Head(conv_parts).els))
  /\ tok_i' = 0
  /\ conv_parts' = Tail(conv_parts)
  /\ UNCHANGED <<cliVars, mainVars, inputVars, loopVars, clientVars, splitVars,
                 transVars, parseVars, conv_version, max_rich_text_length, md_text,
                 conv_blocks, processed_images, resolver_env, resolver_calls,
                 conv_pc, conv_error, conv_run, first_blocks>>

\* the equation block of a block-math part.  src/src: if not part.strip():
\* continue, for every part; backup_v2 appends the block for every match.
BlockMathBlocks(version, expr) ==
  IF version = "current" /\ Strip(expr) = <<>> THEN <<>>
  ELSE <<EquationBlock(Strip(expr))>>

\* the walk of a part is over and the next part is a block-math span
ProcessBlockMath ==
  /\ conv_pc = "walk" /\ tok_i >= Len(tokens)
  /\ conv_parts # <<>> /\ Head(conv_parts).math
  /\ conv_blocks' = conv_blocks
                      \o BlockMathBlocks(conv_version, Head(conv_parts).expr)
  /\ tokens' = <<>> /\ tok_i' = 0
  /\ conv_parts' = Tail(conv_parts)
  /\ UNCHANGED <<cliVars, mainVars, inputVars, loopVars, clientVars, splitVars,
                 transVars, parseVars, conv_version, max_rich_text_length, md_text,
                 processed_images, resolver_env, resolver_calls, conv_pc,
                 conv_error, conv_run, first_blocks>>

\* the walk is at a token of one of the types
Walking(types) ==
  /\ conv_pc = "walk" /\ tok_i < Len(tokens)
  /\ At(tokens, tok_i).type \in types

\* a handler returned r, or raised
Handled(r) ==
  /\ IF r.err # ""
     THEN conv_pc' = "raised" /\ conv_error' = r.err /\ UNCHANGED tok_i
     ELSE tok_i' = r.i /\ UNCHANGED <<conv_pc, conv_error>>
  /\ conv_blocks' = r.blocks
  /\ UNCHANGED <<cliVars, mainVars, inputVars, loopVars, clientVars, splitVars,
                 transVars, parseVars, conv_version, max_rich_text_length, md_text,
                 conv_parts, tokens, resolver_env, conv_run, first_blocks>>

NoImage == UNCHANGED <<processed_images, resolver_calls>>

ProcessHeading ==
  /\ Walking({"heading_open"})
  /\ Handled(_process_heading(conv_version, tokens, tok_i, conv_blocks))
  /\ NoImage

ProcessList ==
  /\ Walking({"bullet_list_open", "ordered_list_open"})
  /\ Handled(_process_list(conv_version, tokens, tok_i, conv_blocks))
  /\ NoImage

\* a handler that may call get_image_url returned r, or raised
HandledImages(r) ==
  /\ Handled(r)
  /\ IF r.err # "" THEN NoImage
     ELSE processed_images' = r.imgs /\ resolver_calls' = r.calls

ProcessParagraph ==
  /\ Walking({"paragraph_open"})
  /\ \E name \in FtpNames :
       HandledImages(_process_paragraph(conv_version, max_rich_text_length,
                       tokens, tok_i, conv_blocks, processed_images,
                       resolver_calls, get_image_url(resolver_env, name)))

\* backup_v2 only: src/src has no branch for an inline token
ProcessInline ==
  /\ Walking({"inline"}) /\ conv_version = "v2"
  /\ \E name \in FtpNames :
       HandledImages(_process_inline(max_rich_text_length, tokens, tok_i,
                       conv_blocks, processed_images, resolver_calls,
                       get_image_url(resolver_env, name)))

ProcessCodeBlock ==
  /\ Walking({"fence"})
  /\ Handled(_process_code_block(conv_version, max_rich_text_length, tokens,
                                 tok_i, conv_blocks))
  /\ NoImage

ProcessBlockquote ==
  /\ Walking({"blockquote_open"})
  /\ Handled(_process_blockquote(conv_version, max_rich_text_length, tokens,
                                 tok_i, conv_blocks))
  /\ NoImage

ProcessHr ==
  /\ Walking({"hr"})
  /\ Handled(Ret(tok_i + 1, Append(conv_blocks, DividerBlock)))
  /\ NoImage

HandledTypes ==
  { "heading_open", "bullet_list_open", "ordered_list_open", "paragraph_open",
    "fence", "blockquote_open", "hr" }

\* else: i += 1
ProcessOther ==
  /\ conv_pc = "walk" /\ tok_i < Len(tokens)
  /\ At(tokens, tok_i).type \notin HandledTypes
  /\ At(tokens, tok_i).type = "inline" => conv_version = "current"
  /\ Handled(Ret(tok_i + 1, conv_blocks))
  /\ NoImage

\* every part is done: return self._validate_blocks(blocks)
ValidateBlocks ==
  /\ conv_pc = "walk" /\ tok_i >= Len(tokens) /\ conv_parts = <<>>
  /\ conv_blocks' = _validate_blocks(conv_version, conv_blocks,
                                     max_blocks_per_page, max_rich_text_length)
  /\ conv_pc' = "done"
  /\ UNCHANGED <<cliVars, mainVars, inputVars, loopVars, clientVars, splitVars,
                 transVars, parseVars, conv_version, max_rich_text_length, md_text,
                 conv_parts, tokens, tok_i, conv_error, processed_images,
                 resolver_env, resolver_calls, conv_run, first_blocks>>

\* the same body is converted once more by a new NotionBlockConverter
ConvertAgain ==
  /\ conv_pc = "done" /\ conv_run = 1
  /\ first_blocks' = conv_blocks
  /\ conv_run' = 2
  /\ conv_pc' = "start"
  /\ tokens' = <<>> /\ tok_i' = 0 /\ conv_blocks' = <<>>
  /\ processed_images' = {} /\ resolver_calls' = <<>>
  /\ UNCHANGED <<cliVars, mainVars, inputVars, loopVars, clientVars, splitVars,
                 transVars, parseVars, conv_version, max_rich_text_length, md_text,
                 conv_parts, resolver_env, conv_error>>

InitConvert ==
  /\ RunIdle /\ SplitIdle /\ ParseIdle /\ TransIdle
  /\ conv_version \in {"v2", "current"}
  /\ max_rich_text_length \in 1..MaxRichText
  /\ md_text \in Bodies
  /\ conv_parts = <<>>
  /\ tokens = <<>> /\ tok_i = 0 /\ conv_blocks = <<>>
  /\ processed_images = {} /\ resolver_calls = <<>>
  \* the resolver is only called for a body with a local image
  /\ resolver_env \in (IF Contains(md_text, "p_local") THEN ResolverEnvs
                       ELSE {"none"})
  /\ conv_pc = "start" /\ conv_error = ""
  /\ conv_run = 1 /\ first_blocks = <<>>

NextConvert ==
  \/ ConvertStart \/ ParsePart \/ ProcessBlockMath
  \/ ProcessHeading \/ ProcessList \/ ProcessParagraph \/ ProcessInline
  \/ ProcessCodeBlock \/ ProcessBlockquote \/ ProcessHr \/ ProcessOther
  \/ ValidateBlocks \/ ConvertAgain

SpecConvert == InitConvert /\ [][NextConvert]_vars

(* ------------- NotionBlockConverter: the lines of a transcript -------- *)
\* The lines of a transcript body, by name, as texts of units.  "EXEC:" is
\* the execution-record label with its colon, "PROMPT" and "RESULT" the
\* words of the two subsection headings, "HOST" the connection-host
\* label, "[[" and "]]" the brackets of a wiki link.
LineText ==
  [ exec     |-> <<"#", "#", "SP", "EXEC:", "SP", "t2">>,
    host     |-> <<"**", "HOST", ":", "**", "SP", "h1">>,
    prompt_h |-> <<"#", "#", "#", "SP", "PROMPT">>,
    result_h |-> <<"#", "#", "#", "SP", "RESULT">>,
    h1       |-> <<"#", "SP", "T">>,
    h2       |-> <<"#", "#", "SP", "S">>,
    rule     |-> <<"-", "-", "-">>,
    marker   |-> <<">", "SP", "[!", "N", "]">>,
    qbold    |-> <<">", "SP", "**", "L", "**">>,
    qtext    |-> <<">", "SP", "q">>,
    plain    |-> <<"a">>,
    wiki     |-> <<"[[", "b", "]]">> ]

\* str.startswith
StartsWith(txt, prefix) ==
  Len(txt) >= Len(prefix) /\ SubSeq(txt, 1, Len(prefix)) = prefix

\* lines[a:b] with Python's indices from 0, 0 <= a
PySlice(ls, a, b) == SubSeq(ls, a + 1, Min(b, Len(ls)))

(* ---- _parse_remote_claude_sections ---- *)
\* re.match(r'^##\s*<label>:\s*(.+)$', line): group 1 (\s* gives white
\* space back when nothing else is left for the group), or <<>> for no match
HeaderGroup(rest) == IF LStrip(rest) # <<>> THEN LStrip(rest) ELSE rest

ExecHeaderGroup(line) ==
  IF StartsWith(line, <<"#", "#", "SP", "EXEC:">>)
  THEN HeaderGroup(SubSeq(line, 5, Len(line)))
  ELSE IF StartsWith(line, <<"#", "#", "EXEC:">>)
  THEN HeaderGroup(SubSeq(line, 4, Len(line)))
  ELSE <<>>

\* re.sub(r'\*\*([^:]+):\*\*\s*(.+)', r'\1: \2', line) for a line that
\* starts with the bold label
CleanMetaLine(line) ==
  IF Len(line) >= 5 /\ line[1] = "**" /\ line[2] \notin {":", "**"}
       /\ line[3] = ":" /\ line[4] = "**"
       /\ LStrip(SubSeq(line, 5, Len(line))) # <<>>
  THEN <<line[2], ":", "SP">> \o LStrip(SubSeq(line, 5, Len(line)))
  ELSE line

\* re.match(r'^###\s+<word>', line)
IsSubsectionHeading(line, word) == StartsWith(line, <<"#", "#", "#", "SP", word>>)

\* the locals of the scan before the first line
ScanStart ==
  [ execution_header |-> <<>>, current_section |-> "None",
    metadata_lines |-> <<>>, prompt_title |-> FALSE, result_title |-> FALSE,
    prompt_start |-> -1, result_start |-> -1, prompt_lines |-> <<>> ]

\* the result-heading branch of the scan
ResultHeading(st, lines, i) ==
  [st EXCEPT !.result_title = TRUE, !.result_start = i + 1,
             !.current_section = "result",
             !.prompt_lines =
                IF st.prompt_start >= 0 /\ i + 1 > st.prompt_start
                THEN PySlice(lines, st.prompt_start, i) ELSE @]

\* for i, line in enumerate(lines)
RECURSIVE SectionScan(_, _, _)
SectionScan(lines, i, st) ==
  IF i >= Len(lines) THEN st
  ELSE LET line == At(lines, i) IN
       IF ExecHeaderGroup(line) # <<>>
       THEN SectionScan(lines, i + 1,
              [st EXCEPT !.execution_header =
                            <<"EXEC:", "SP">> \o ExecHeaderGroup(line),
                         !.current_section = "metadata"])
       ELSE IF st.current_section = "metadata" /\ Contains(line, "**")
       THEN SectionScan(lines, i + 1,
              [st EXCEPT !.metadata_lines =
                            IF CleanMetaLine(line) # line
                            THEN Append(@, CleanMetaLine(line)) ELSE @])
       ELSE IF IsSubsectionHeading(line, "PROMPT")
       THEN SectionScan(lines, i + 1,
              [st EXCEPT !.prompt_title = TRUE, !.prompt_start = i + 1,
                         !.current_section = "prompt"])
       ELSE IF IsSubsectionHeading(line, "RESULT")
       THEN SectionScan(lines, i + 1, ResultHeading(st, lines, i))
       ELSE SectionScan(lines, i + 1, st)

\* the loop that cleans the prompt lines
RECURSIVE CleanPromptLoop(_, _, _)
CleanPromptLoop(ls, skip_next, out) ==
  IF ls = <<>> THEN out
  ELSE LET line == Head(ls) IN
       IF StartsWith(line, <<">", "SP", "[!">>)
       THEN CleanPromptLoop(Tail(ls), TRUE, out)
       ELSE IF skip_next /\ StartsWith(line, <<">", "SP", "**">>)
       THEN CleanPromptLoop(Tail(ls), FALSE, out)
       ELSE IF StartsWith(line, <<">">>)
       THEN CleanPromptLoop(Tail(ls), skip_next,
              IF LStrip(Tail(line)) # <<>> \/ line = <<">">>
              THEN Append(out, LStrip(Tail(line))) ELSE out)
       ELSE IF Strip(line) # <<>> /\ ~StartsWith(line, <<"#">>)
       THEN CleanPromptLoop(Tail(ls), skip_next, Append(out, line))
       ELSE CleanPromptLoop(Tail(ls), skip_next, out)

\* the index at which the result content ends: the first line after the
\* first that starts with --- or is an execution header, else len(lines)
ResultEnd(lines, result_start) ==
  MinOf({ i \in (result_start + 1)..(Len(lines) - 1) :
            \/ StartsWith(At(lines, i), <<"-", "-", "-">>)
            \/ StartsWith(At(lines, i), <<"#", "#", "SP", "EXEC:">>) }
        \cup {Len(lines)})

\* the quote marker of a result line is taken off
CleanResultLine(line) ==
  IF StartsWith(line, <<">">>) THEN LStrip(Tail(line)) ELSE line

\* '\n'.join(lines).strip(), as the lines it leaves
RECURSIVE StripLines(_)
StripLines(ls) ==
  IF ls # <<>> /\ Strip(Head(ls)) = <<>> THEN StripLines(Tail(ls))
  ELSE IF ls # <<>> /\ Strip(ls[Len(ls)]) = <<>>
  THEN StripLines(SubSeq(ls, 1, Len(ls) - 1))
  ELSE ls

\* The dict it returns; a key that is not set is has_... = FALSE.  The
\* contents are kept as lines ('\n'.join is applied where a block is made).
_parse_remote_claude_sections(lines) ==
  LET st == SectionScan(lines, 0, ScanStart)
      result_lines == PySlice(lines, st.result_start,
                              ResultEnd(lines, st.result_start))
  IN  [ execution_header |-> st.execution_header,
        metadata |-> st.metadata_lines,
        prompt_title |-> st.prompt_title,
        has_prompt_content |-> st.prompt_lines # <<>>,
        prompt_content |-> StripLines(CleanPromptLoop(st.prompt_lines, FALSE, <<>>)),
        has_result_content |-> st.result_start >= 0,
        result_content |->
          IF st.result_start >= 0
          THEN StripLines([k \in DOMAIN result_lines |->
                             CleanResultLine(result_lines[k])])
          ELSE <<>> ]

(* ---- _create_result_blocks ---- *)
\* a paragraph of the lines gathered so far
ParagraphTokens(para) ==
  IF para = <<>> THEN <<>>
  ELSE <<Tok("paragraph_open"), Inline(JoinLF(para)), Tok("paragraph_close")>>

\* the number of # a line starts with
RECURSIVE Hashes(_)
Hashes(line) ==
  IF line # <<>> /\ Head(line) = "#" THEN 1 + Hashes(Tail(line)) ELSE 0

HeadingTag == <<"h1", "h2", "h3", "h4", "h5", "h6">>

\* self.md.parse(result_content) for the lines of a transcript: a heading
\* for a line of # marks, a rule (after a text line the underline of a
\* level-2 heading) for ---, a paragraph for every run of other lines
RECURSIVE MdParse(_, _)
MdParse(lines, para) ==
  IF lines = <<>> THEN ParagraphTokens(para)
  ELSE LET line == Head(lines) IN
       IF Strip(line) = <<>>
       THEN ParagraphTokens(para) \o MdParse(Tail(lines), <<>>)
       ELSE IF Hashes(line) \in 1..6 /\ Len(line) > Hashes(line)
                 /\ line[Hashes(line) + 1] = "SP"
       THEN ParagraphTokens(para)
            \o <<Token("heading_open", <<>>, HeadingTag[Hashes(line)]),
                 Inline(Strip(SubSeq(line, Hashes(line) + 1, Len(line)))),
                 Tok("heading_close")>>
            \o MdParse(Tail(lines), <<>>)
       ELSE IF line = <<"-", "-", "-">>
       THEN (IF para = <<>> THEN <<Tok("hr")>>
             ELSE <<Token("heading_open", <<>>, "h2"), Inline(JoinLF(para)),
                    Tok("heading_close")>>)
            \o MdParse(Tail(lines), <<>>)
       ELSE MdParse(Tail(lines), Append(para, line))

\* _process_paragraph_for_toggle; the lines hold no dollar sign pair, so
\* the search for block math finds nothing
_process_paragraph_for_toggle(toks, i, bs) ==
  IF i + 1 >= Len(toks) THEN bs
  ELSE LET txt == Strip(At(toks, i + 1).content)
       IN  IF txt = <<>> THEN bs
           ELSE IF MathFrom(txt, 1) # <<>>
           THEN Append(bs, CBlock("paragraph", MathSpans(txt, MathFrom(txt, 1), 0),
                                  <<>>, "", ""))
           ELSE Append(bs, TextBlock("paragraph", txt))

\* the walk of _create_result_blocks over the tokens of the result; the
\* lines give no list, fence or block quote
RECURSIVE ToggleWalk(_, _, _)
ToggleWalk(toks, i, bs) ==
  IF i >= Len(toks) THEN bs
  ELSE LET t == At(toks, i).type IN
       IF t = "heading_open"
       THEN ToggleWalk(toks, i + 3,
              Append(bs, TextBlock(HeadingType("current",
                                     HeadingLevel[At(toks, i).info]),
                                   At(toks, i + 1).content)))
       ELSE IF t = "paragraph_open"
       THEN ToggleWalk(toks, i + 2, _process_paragraph_for_toggle(toks, i, bs))
       ELSE IF t = "hr"
       THEN ToggleWalk(toks, i + 1, Append(bs, DividerBlock))
       ELSE ToggleWalk(toks, i + 1, bs)

_create_result_blocks(result_content) ==
  IF result_content = <<>> THEN <<>>
  ELSE ToggleWalk(MdParse(result_content, <<>>), 0, <<>>)

(* ---- _convert_remote_claude_format ---- *)
\* a top-level block of a transcript: its kind, its text, its children
TrBlock(t, c, ch) == [type |-> t, rich_text |-> <<TextSpan(c)>>, children |-> ch]

\* the emoji and the titles the blocks carry
HeaderMark == <<"E1", "SP">>
PromptTitle == <<"E2", "SP", "PROMPT">>
ResultTitle == <<"E3", "SP", "RESULT">>
ToggleTitle == <<"E4", "SP", "SHOW">>

_convert_remote_claude_format(sec) ==
  (IF sec.execution_header # <<>>
   THEN <<TrBlock("heading_2", HeaderMark \o sec.execution_header, <<>>)>>
   ELSE <<>>)
  \o [k \in DOMAIN sec.metadata |->
        TrBlock("bulleted_list_item", sec.metadata[k], <<>>)]
  \o (IF sec.prompt_title
      THEN <<TrBlock("heading_3", PromptTitle, <<>>)>>
           \o (IF sec.prompt_content # <<>>
               THEN <<TrBlock("callout", JoinLF(sec.prompt_content), <<>>)>>
               ELSE <<>>)
      ELSE <<>>)
  \o (IF sec.result_content # <<>>
      THEN <<TrBlock("heading_3", ResultTitle, <<>>),
             TrBlock("toggle", ToggleTitle,
                     _create_result_blocks(sec.result_content))>>
      ELSE <<>>)

(* ------------------ a transcript routed and converted ----------------- *)
PromptKinds == {"marker", "qbold", "qtext", "plain", "wiki"}
ResultKinds == {"plain", "wiki", "qtext", "h1", "h2", "rule", "exec",
                "prompt_h", "result_h"}
Heads == {<<>>, <<"exec">>, <<"exec", "host">>}

\* what stands before the prompt heading, the prompt subsection and the
\* result subsection
TranscriptBodies ==
  { h \o <<"prompt_h">> \o p \o <<"result_h">> \o r :
      h \in Heads, p \in SeqsUpTo(PromptKinds, MaxPromptLines),
      r \in SeqsUpTo(ResultKinds, MaxResultLines) }

\* md_text.split('\n')
TextLines(names) == [k \in DOMAIN names |-> LineText[names[k]]]

\* convert_markdown_to_blocks: the test of the format
RouteTranscript ==
  /\ tr_pc = "route"
  /\ tr_pc' = IF _is_remote_claude_format(
                   [k \in DOMAIN tr_text |-> Line(tr_text[k], "")])
              THEN "parse" ELSE "standard"
  /\ UNCHANGED <<cliVars, mainVars, inputVars, loopVars, clientVars, splitVars,
                 parseVars, convVars, tr_text, sections, tr_blocks>>

ParseRemoteClaudeSections ==
  /\ tr_pc = "parse"
  /\ sections' = _parse_remote_claude_sections(TextLines(tr_text))
  /\ tr_pc' = "build"
  /\ UNCHANGED <<cliVars, mainVars, inputVars, loopVars, clientVars, splitVars,
                 parseVars, convVars, tr_text, tr_blocks>>

ConvertRemoteClaudeFormat ==
  /\ tr_pc = "build"
  /\ tr_blocks' = _validate_blocks("current",
                    _convert_remote_claude_format(sections),
                    max_blocks_per_page, max_rich_text_length)
  /\ tr_pc' = "done"
  /\ UNCHANGED <<cliVars, mainVars, inputVars, loopVars, clientVars, splitVars,
                 parseVars, convVars, tr_text, sections>>

InitTranscript ==
  /\ RunIdle /\ SplitIdle /\ ParseIdle /\ ConvIdle
  /\ tr_text \in TranscriptBodies
  /\ sections = <<>> /\ tr_blocks = <<>>
  /\ tr_pc = "route"

NextTranscript ==
  RouteTranscript \/ ParseRemoteClaudeSections \/ ConvertRemoteClaudeFormat

SpecTranscript == InitTranscript /\ [][NextTranscript]_vars

(* ------------------------------ claims -------------------------------- *)
IdsOf(bs) == [i \in DOMAIN bs |-> bs[i].id]
CallBlocks == [i \in DOMAIN calls |-> calls[i].blocks]
SubmissionsOf(c) == SelectSeq(submissions, LAMBDA sb : sb.call = c)
CeilDiv(n, d) == (n + d - 1) \div d
\* the run went down _create_multiple_pages
MultiPage == calls # <<>> /\ Len(blocks) > max_blocks_per_page
\* upload_file has returned normally and no submission was turned down
AllSucceeded == pc = "done" /\ fault = "none" /\ calls # <<>> /\ rejects = 0

\* C1: when every submission succeeds, a list of N > cap blocks goes out as
\* exactly ceil(N/cap) pages of at most cap blocks each, the first page holds
\* the first cap blocks, and the pages' lists in order make up the input list.
C1_PagesPartitionBlocks ==
  (AllSucceeded /\ MultiPage) =>
    /\ Len(calls) = CeilDiv(Len(blocks), max_blocks_per_page)
    /\ \A i \in DOMAIN calls : Len(calls[i].blocks) <= max_blocks_per_page
    /\ calls[1].blocks = Take(blocks, max_blocks_per_page)
    /\ Flatten(CallBlocks) = blocks

\* three pages, the last one not full (as 100, 100, 50)
C1_Witness ==
  /\ AllSucceeded /\ MultiPage
  /\ max_blocks_per_page = 2
  /\ Len(calls) = 3
  /\ Len(calls[3].blocks) = 1

\* C2: the main page is submitted with no parent; a continuation page is only
\* ever submitted after the main page's submission was accepted, the k-th one
\* with the main page's identifier as parent, no summary, and the main title
\* followed by the index k (k = 1, 2, ... without gaps).
C2_ParentBeforeChildren ==
  MultiPage =>
    /\ calls[1].parent_id = 0
    /\ calls[1].title = title
    /\ \A s \in DOMAIN submissions :
         submissions[s].call = 1 => submissions[s].parent = [database_id |-> "db"]
    /\ \A i \in DOMAIN calls : i > 1 =>
         /\ calls[1].result = "page"
         /\ calls[1].page # 0
         /\ calls[i].parent_id = calls[1].page
         /\ calls[i].abstract = 0
         /\ calls[i].title = title \o <<" (continued ", i - 1, ")">>
    /\ \A s \in DOMAIN submissions : submissions[s].call > 1 =>
         /\ \E m \in 1..(s - 1) :
              submissions[m].call = 1 /\ submissions[m].resp = "ok"
         /\ submissions[s].parent = [page_id |-> calls[1].page]
         /\ submissions[s].memo = 0

C2_Witness ==
  /\ MultiPage
  /\ Len(calls) = 3
  /\ calls[3].result = "page"
  /\ Len(SubmissionsOf(1)) = 2

\* C3: with at most cap blocks (cap exactly, or none) there is exactly one
\* create_page call, with all the blocks, the title, the summary and no
\* parent; the multi-page path is taken exactly when there are more than cap.
C3_SinglePageIffWithinCap ==
  calls # <<>> =>
    IF Len(blocks) <= max_blocks_per_page
    THEN /\ pc \in {"single", "done"}
         /\ Len(calls) = 1
         /\ IdsOf(calls[1].blocks) = IdsOf(blocks)
         /\ rejects = 0 => calls[1].blocks = blocks
         /\ calls[1].title = title
         /\ calls[1].abstract = abstract
         /\ calls[1].parent_id = 0
    ELSE /\ pc \in {"main_page", "chunk", "done"}
         /\ Len(calls[1].blocks) = max_blocks_per_page

\* a list of exactly cap blocks, sent as one page
C3_Witness ==
  /\ pc = "done" /\ fault = "none"
  /\ Len(blocks) = max_blocks_per_page
  /\ Len(calls) = 1 /\ calls[1].result = "page"

\* C4: when the first create_page of a run fails, no further create_page is
\* made and the run ends with an error (exit status 1, never 0); this holds
\* for the main page of several and for a single page alike.
C4_FirstPageFailureIsFatal ==
  (calls # <<>> /\ calls[1].result \in {"none", "raised"}) =>
    /\ Len(calls) = 1
    /\ pc \in {"single", "main_page", "done"}
    /\ pc = "done" => exit_code = 1
    /\ (pc = "done" /\ fault # "interrupt") =>
         fault = (IF calls[1].result = "none" THEN "page_creation" ELSE "exception")

\* the main page of a multi-page upload was turned down
C4_Witness ==
  /\ MultiPage
  /\ calls[1].result = "none"
  /\ pc = "done" /\ exit_code = 1 /\ fault = "page_creation"

\* C5: when continuation page k fails, it stays the last create_page call of
\* the run although blocks remain, and every page before it stays created:
\* each was accepted once and nothing of it is sent again.
C5_ContinuationFailureStops ==
  \A i \in DOMAIN calls :
    (i > 1 /\ calls[i].result \in {"none", "raised"}) =>
      /\ i = Len(calls)
      /\ submissions[Len(submissions)].call = i
      /\ \A j \in 1..(i - 1) :
           /\ calls[j].result = "page"
           /\ Cardinality({ s \in Accepted : submissions[s].call = j }) = 1
           /\ \A s \in Accepted : submissions[s].call = j =>
                \A later \in (s + 1)..Len(submissions) : submissions[later].call > j

\* the second continuation page fails while blocks are still waiting
C5_Witness ==
  /\ Len(calls) = 3
  /\ calls[3].result = "none"
  /\ remaining_blocks # <<>>
  /\ pc = "done"

\* C6: one create_page call sends at most two submissions; the second comes
\* only after the first was rejected; after a rejected second one nothing more
\* is sent and the call returns no page handle.
C6_AtMostTwoSubmissions ==
  \A c \in DOMAIN calls :
    LET subs == SubmissionsOf(c) IN
    /\ Len(subs) <= 2
    /\ \A k \in DOMAIN subs : subs[k].attempt = k
    /\ Len(subs) = 2 => IsAPIResponseError(subs[1].resp)
    /\ (Len(subs) = 2 /\ IsAPIResponseError(subs[2].resp)) =>
         /\ calls[c].result = "none"
         /\ c = Len(calls) => cpc \in {"ret", "idle"}

C6_Witness ==
  /\ Len(submissions) = 2
  /\ IsAPIResponseError(submissions[1].resp)
  /\ IsAPIResponseError(submissions[2].resp)
  /\ calls[1].result = "none" /\ cpc = "ret"

\* the retry's list against the list first sent: same length, each callout
\* replaced in its place by a quote with the callout's spans, the emoji and a
\* space put before the first span's content when the callout has an icon and
\* that span is a text span; every other block as it was
DowngradedAt(before, after) ==
  IF before.type # "callout" THEN after = before
  ELSE /\ after.type = "quote"
       /\ Len(after.rich_text) = Len(before.rich_text)
       /\ \A k \in DOMAIN before.rich_text :
            IF k = 1 /\ before.emoji # "" /\ before.rich_text[1].type = "text"
            THEN /\ after.rich_text[1].type = "text"
                 /\ after.rich_text[1].content
                      = <<before.emoji, " ">> \o before.rich_text[1].content
            ELSE after.rich_text[k] = before.rich_text[k]

\* C7, as the claim states it: every rejected submission is followed by one
\* fallback retry, and create_page reports failure only after a rejected retry.
C7_RetryOnEveryRejection ==
  \A c \in DOMAIN calls :
    LET subs == SubmissionsOf(c) IN
    /\ (subs # <<>> /\ IsAPIResponseError(subs[1].resp)) =>
         (Len(subs) = 2 \/ (c = Len(calls) /\ cpc = "retry"))
    /\ calls[c].result = "none" =>
         (Len(subs) = 2 /\ IsAPIResponseError(subs[2].resp))

\* C7, amended: the v2 client retries once exactly when the rejection's text
\* holds 'callout' (the current client never retries); the retry sends the
\* first list with its callouts downgraded to quotes; create_page reports
\* failure after a rejection it does not retry or after a rejected retry.
C7_RetryOnCalloutRejection ==
  \A c \in DOMAIN calls :
    LET subs == SubmissionsOf(c)
        retried == Len(subs) >= 2 \/ (c = Len(calls) /\ cpc = "retry")
    IN
    /\ subs # <<>> =>
         (retried <=> (client_version = "v2" /\ subs[1].resp = "api_error_callout"))
    /\ Len(subs) >= 2 =>
         /\ Len(subs[2].children) = Len(subs[1].children)
         /\ \A i \in DOMAIN subs[1].children :
              DowngradedAt(subs[1].children[i], subs[2].children[i])
    /\ calls[c].result = "none" <=>
         \/ /\ Len(subs) = 1 /\ IsAPIResponseError(subs[1].resp) /\ ~retried
         \/ /\ Len(subs) = 2 /\ IsAPIResponseError(subs[2].resp)

\* a callout with an icon and a paragraph went out again as quote and paragraph
C7_Witness ==
  /\ Len(submissions) = 2
  /\ Len(submissions[1].children) = 2
  /\ submissions[1].children[1].type = "callout"
  /\ submissions[1].children[1].emoji = "E"
  /\ submissions[1].children[1].rich_text # <<>>
  /\ submissions[1].children[1].rich_text[1].type = "text"
  /\ submissions[1].children[2].type = "paragraph"
  /\ submissions[2].children[1].type = "quote"
  /\ submissions[2].resp = "ok"

\* the run as a whole is over, and its exit status
RunDone == IF entry = "cli" THEN cli_pc = "done" ELSE pc = "done"
FinalExit == IF entry = "cli" THEN cli_exit ELSE exit_code
HandledFailures == {"missing_file", "config", "page_creation", "exception"}

\* C8: a run ends with status 0 on success, 1 on every handled failure
\* (missing file, incomplete configuration, page-creation failure, unexpected
\* exception) and 130 on a user interruption, from cli.main and from main.main.
C8_ExitCodes ==
  RunDone =>
    /\ fault = "none" => FinalExit = 0
    /\ fault \in HandledFailures => FinalExit = 1
    /\ fault = "interrupt" => FinalExit = 130

\* C9: every piece split_long_text returns is at most max_length long.
C9_PiecesWithinMax ==
  split_pc = "done" => \A i \in DOMAIN chunks : Len(chunks[i]) <= max_length

\* C10: the pieces of split_long_text, joined in order, are the text again,
\* and none of them is empty when the text is longer than max_length.
C10_RoundTrip ==
  split_pc = "done" =>
    /\ Flatten(chunks) = text
    /\ Len(text) > max_length => \A i \in DOMAIN chunks : chunks[i] # <<>>

\* a text over the maximum with a line break inside, cut into three pieces
C10_Witness ==
  /\ split_pc = "done"
  /\ Len(text) > max_length
  /\ Len(chunks) >= 3
  /\ \E i \in 1..(Len(text) - 1) : text[i] = "LF"

(* ---- C11 ---- *)
\* the transcript signals that occur in a body, each counted once
SignalsIn(ls) ==
  { ls[i].kind : i \in DOMAIN ls } \cap
  {"exec", "host", "pfile", "prompt_h", "result_h"}

\* C11: convert takes the transcript path exactly when at least three
\* distinct signals of the five occur in the body, the standard path for
\* every other body, and no path before it has routed.
C11_RouteByThreeSignals ==
  /\ doc_pc = "done" =>
       /\ path \in {"transcript", "standard"}
       /\ path = "transcript" <=> Cardinality(SignalsIn(doc_body)) >= 3
  /\ doc_pc # "done" => path = "none"

\* a body of four lines with two distinct signals only went the standard way
C11_Witness ==
  /\ doc_pc = "done" /\ path = "standard"
  /\ Cardinality(SignalsIn(doc_body)) = 2
  /\ Cardinality({ i \in DOMAIN doc_body : doc_body[i].kind \in
                     {"exec", "host", "pfile", "prompt_h", "result_h"} }) >= 3

(* ---- C12 ---- *)
\* C12: a key of the front-matter header keeps its front-matter value in
\* the returned map: with "execution_time: t1" in the header the map says
\* t1, whatever execution header the body holds.
C12_MergeNeverOverwrites ==
  (doc_pc # "parse" /\ HasHeader(document)
     /\ \E i \in DOMAIN FmContent(document) : FmContent(document)[i].kind = "kv")
  => /\ "execution_time" \in DOMAIN doc_frontmatter
     /\ doc_frontmatter["execution_time"] = "t1"

(* ---- C13 ---- *)
\* C13: for a document without a leading header the returned map is empty
\* and the returned body is the document itself.
C13_NoHeaderVerbatim ==
  (doc_pc # "parse" /\ ~HasHeader(document))
  => (DOMAIN doc_frontmatter = {} /\ doc_body = document)

(* ---- C14 ---- *)
\* C14: the step of the walk over a code fence tagged math appends exactly
\* one block, an equation whose expression is the content of the fence
\* without its leading and trailing white space.
C14_MathFenceOneTrimmedEquation ==
  [][ (Walking({"fence"}) /\ At(tokens, tok_i).info = "math")
      => conv_blocks' =
           Append(conv_blocks,
                  [type |-> "equation", rich_text |-> <<>>,
                   expression |-> Strip(At(tokens, tok_i).content),
                   url |-> "", language |-> ""]) ]_vars

(* ---- C15 ---- *)
\* C15: in the block list convert returns, no text span of any block is
\* longer than max_rich_text_length.
C15_RichTextWithinMax ==
  conv_pc = "done" =>
    \A k \in DOMAIN conv_blocks :
      \A j \in DOMAIN conv_blocks[k].rich_text :
        conv_blocks[k].rich_text[j].type = "text"
          => Len(conv_blocks[k].rich_text[j].content) <= max_rich_text_length

(* ---- C16 ---- *)
\* C16: when the conversion produced more blocks than max_blocks_per_page
\* and every submission succeeded, each produced block is on exactly one
\* page: none is discarded and none is sent twice.
C16_NoBlockDiscarded ==
  (AllSucceeded /\ Len(produced) > max_blocks_per_page) =>
    \A k \in DOMAIN produced :
      Cardinality({ cp \in { <<c, p>> : c \in DOMAIN calls, p \in 1..MaxBlocks + 3 } :
                      /\ cp[2] <= Len(calls[cp[1]].blocks)
                      /\ calls[cp[1]].blocks[cp[2]].id = produced[k].id }) = 1

(* ---- C17 ---- *)
\* the image blocks of a list whose URL is not the remote reference's own
LocalImageBlocks(bs) ==
  SelectSeq(bs, LAMBDA b : b.type = "image" /\ b.url # "http://r")

\* the references to the local image in a body
LocalReferences(els) == SelectSeq(els, LAMBDA e : e = "p_local")

\* C17: within one conversion no source is given to the resolver twice, and
\* in a body of paragraphs every further reference to a source that gave
\* an image block gives an image block with the same URL.
C17_ImageResolvedOnce ==
  /\ \A i, j \in DOMAIN resolver_calls :
       i # j => resolver_calls[i] # resolver_calls[j]
  /\ (conv_pc = "done"
        /\ (\A k \in DOMAIN md_text : md_text[k] \in {"p_local", "p_remote", "p_short"})
        /\ LocalImageBlocks(conv_blocks) # <<>>)
     => /\ Len(LocalImageBlocks(conv_blocks)) = Len(LocalReferences(md_text))
        /\ \A k \in DOMAIN LocalImageBlocks(conv_blocks) :
             LocalImageBlocks(conv_blocks)[k].url = LocalImageBlocks(conv_blocks)[1].url

(* ---- C18 ---- *)
\* a body of paragraphs only: texts and image references
OnlyParagraphs(els) ==
  \A k \in DOMAIN els : els[k] \in {"p_local", "p_remote", "p_short"}

\* C18: whatever the resolver meets (no file, failed uploads, no uploader),
\* the conversion of a body of paragraphs goes to its end, the reference to
\* the local image gives an image block, and no image block has an empty URL.
C18_PlaceholderOnFailure ==
  /\ \A k \in DOMAIN conv_blocks :
       conv_blocks[k].type = "image" => conv_blocks[k].url # ""
  /\ OnlyParagraphs(md_text) => conv_pc # "raised"
  /\ (conv_pc = "done" /\ OnlyParagraphs(md_text)
        /\ Len(SelectSeq(md_text, LAMBDA e : e = "p_local")) = 1)
     => Len(SelectSeq(conv_blocks, LAMBDA b : b.type = "image"
                                               /\ b.url # "http://r")) = 1

(* ---- C19 ---- *)
\* C19: no conversion ends with an exception, whatever the body: an empty
\* block quote, an empty list item, a list item holding only a code fence,
\* a nested list and a callout line included.
C19_ConverterNeverRaises == conv_pc # "raised"

(* ---- C20 ---- *)
\* C20: the second conversion of a body, by a new converter in the same
\* surroundings, returns the block list the first conversion returned.
C20_SameBlocksTwice ==
  (conv_run = 2 /\ conv_pc = "done") => conv_blocks = first_blocks

(* ---- C21 ---- *)
\* the bodies of plain paragraphs and block-math spans, with a span
PlainAndMath(els) ==
  /\ \A k \in DOMAIN els : els[k] \in {"p_short"} \cup DOMAIN BlockMath
  /\ \E k \in DOMAIN els : els[k] \in DOMAIN BlockMath

\* a paragraph block for every plain paragraph and an equation block with
\* the trimmed inner text for every span, in the order of the body; blank
\* says what a span of white space alone gives: "equation" or "nothing"
RECURSIVE InDocumentOrder(_, _)
InDocumentOrder(els, blank) ==
  IF els = <<>> THEN <<>>
  ELSE (IF Head(els) \notin DOMAIN BlockMath
        THEN <<TextBlock("paragraph", Elements[Head(els)][2].content)>>
        ELSE IF Strip(BlockMath[Head(els)]) = <<>> /\ blank = "nothing"
        THEN <<>>
        ELSE <<EquationBlock(Strip(BlockMath[Head(els)]))>>)
       \o InDocumentOrder(Tail(els), blank)

LinksOf(txt) == SelectSeq(txt, LAMBDA u : u \in DOMAIN Links)

\* for every link a paragraph with its label and then one block with its
\* URL: an embed when the domain of the URL is a video domain, else a
\* bookmark
RECURSIVE LabeledUrlBlocks(_)
LabeledUrlBlocks(ls) ==
  IF ls = <<>> THEN <<>>
  ELSE <<TextBlock("paragraph", Links[Head(ls)].text),
         CBlock(IF Links[Head(ls)].pieces[1] \in video_domains THEN "embed"
                ELSE "bookmark",
                <<>>, <<>>, Links[Head(ls)].url, "")>>
       \o LabeledUrlBlocks(Tail(ls))

\* the lists of one item that is no bold label and value
PlainItemLists == {"l_text", "l_video", "l_query", "l_two"}

\* C22: a list item that is no bold label:value item gives, for each of its
\* links in their order, a paragraph with the link's label and then an embed
\* block (the URL's domain is a video domain) or a bookmark block (any other
\* URL); an item without links gives one list-item block.
C22_LinksOfListItems ==
  (conv_pc = "done" /\ Len(md_text) = 1 /\ md_text[1] \in PlainItemLists)
    => LET txt == Elements[md_text[1]][4].content
       IN  conv_blocks = IF LinksOf(txt) = <<>>
                         THEN <<TextBlock("bulleted_list_item", txt)>>
                         ELSE LabeledUrlBlocks(LinksOf(txt))

(* ---- C23 ---- *)
\* the texts a block carries: its spans and its expression
PayloadsOf(b) ==
  { b.rich_text[k].content : k \in DOMAIN b.rich_text }
    \cup (IF "expression" \in DOMAIN b THEN {b.expression} ELSE {})

\* the blocks of a list and the children of its toggles
WithChildren(bs) ==
  { bs[k] : k \in DOMAIN bs }
    \cup UNION { { bs[k].children[j] : j \in DOMAIN bs[k].children } :
                 k \in { i \in DOMAIN bs : "children" \in DOMAIN bs[i] } }

NoWikiLink(bs) ==
  \A b \in WithChildren(bs) : \A c \in PayloadsOf(b) : ~Contains(c, "[[")

\* C23: on the standard path as on the transcript path, no text of a block
\* that convert returns, top-level or child of a toggle, holds a [[wiki
\* link]] of the body.
C23_NoWikiLinkOnEitherPath ==
  /\ conv_pc = "done" => NoWikiLink(conv_blocks)
  /\ tr_pc = "done" => NoWikiLink(tr_blocks)

(* ---- C24 ---- *)
\* the lines after the first result heading of a body
AfterResultHeading(names) ==
  SubSeq(names, MinOf({ k \in DOMAIN names : names[k] = "result_h" }) + 1,
         Len(names))

\* the lines of names before the first that is one of kinds
UpToFirst(names, kinds) ==
  SubSeq(names, 1,
         MinOf({ k \in DOMAIN names : names[k] \in kinds }
               \cup {Len(names) + 1}) - 1)

\* a body with one result heading, which no prompt heading follows
OneResultHeading(names) ==
  /\ Cardinality({ k \in DOMAIN names : names[k] = "result_h" }) = 1
  /\ ~Contains(AfterResultHeading(names), "prompt_h")

\* the content of lines of a subsection: quote markers off, trimmed
ContentOf(names) ==
  StripLines([k \in DOMAIN names |-> CleanResultLine(LineText[names[k]])])

\* C24: the result content is the lines after the result heading up to the
\* first line that is a top-level heading, a horizontal rule or a new
\* execution header (to the end of the text when there is none); a level-2
\* or level-3 heading among them does not end it.
C24_ResultEndsAtBoundary ==
  (tr_pc \in {"build", "done"} /\ OneResultHeading(tr_text))
    => sections.result_content
         = ContentOf(UpToFirst(AfterResultHeading(tr_text),
                               {"h1", "rule", "exec"}))

(* ---- C25 ---- *)
\* the lines between the prompt heading and the result heading of a body
\* with one of each
PromptOf(names) ==
  SubSeq(names, MinOf({ k \in DOMAIN names : names[k] = "prompt_h" }) + 1,
         MinOf({ k \in DOMAIN names : names[k] = "result_h" }) - 1)

OnePromptHeading(names) ==
  Cardinality({ k \in DOMAIN names : names[k] = "prompt_h" }) = 1

\* the prompt lines that are kept: all but the callout marker lines and
\* the bold-label line that stands directly after one
KeptPromptLines(names) ==
  SelectSeq([k \in DOMAIN names |->
               IF names[k] = "marker"
                    \/ (names[k] = "qbold" /\ k > 1 /\ names[k - 1] = "marker")
               THEN "dropped" ELSE names[k]],
            LAMBDA n : n # "dropped")

\* C25: of the prompt lines, a callout marker line is dropped, and a
\* bold-label line is dropped only when it stands directly after a marker
\* line; every other line is kept, its quote marker taken off.
C25_OnlyLeadingLabelDropped ==
  (tr_pc \in {"build", "done"} /\ OneResultHeading(tr_text)
     /\ OnePromptHeading(tr_text))
    => sections.prompt_content = ContentOf(KeptPromptLines(PromptOf(tr_text)))

(* ---- C26 ---- *)
\* the fences whose content holds a document-level command
DocumentFences ==
  { e \in DOMAIN Elements :
      /\ Elements[e][1].type = "fence"
      /\ \E u \in latex_document_indicators : Contains(Elements[e][1].content, u) }

\* C26: a code fence whose content holds a document-level command is
\* emitted as a code block and never as an equation block, whatever its
\* tag and whatever math indicators or environments the content holds too.
C26_DocumentMarkerForcesCode ==
  (conv_pc = "done" /\ Len(md_text) = 1 /\ md_text[1] \in DocumentFences)
    => /\ \E k \in DOMAIN conv_blocks : conv_blocks[k].type = "code"
       /\ \A k \in DOMAIN conv_blocks : conv_blocks[k].type # "equation"

(* ---- C27 ---- *)
\* C27: in the continuation loop the blocks still to submit are the input
\* list less the blocks of the pages submitted so far, every continuation
\* page takes at least one block, and so no more than ceil((N - cap) / cap)
\* continuation pages are submitted for a list of N blocks.
C27_ContinuationLoopBounded ==
  MultiPage =>
    /\ \A c \in 2..Len(calls) : calls[c].blocks # <<>>
    /\ pc = "chunk" =>
         Len(remaining_blocks) = Len(blocks) - Len(Flatten(CallBlocks))
    /\ Len(calls) - 1
         <= CeilDiv(Len(blocks) - max_blocks_per_page, max_blocks_per_page)

\* two continuation pages were submitted and nothing remains
C27_Witness ==
  /\ MultiPage /\ pc = "chunk" /\ remaining_blocks = <<>>
  /\ Len(calls) = 3
  /\ Len(calls) - 1
       = CeilDiv(Len(blocks) - max_blocks_per_page, max_blocks_per_page)

(* ---- C28 ---- *)
\* C28: main.main ends with the success status only if every create_page
\* call of the run returned a page: a failed single page, main page or
\* continuation page makes upload_file raise, so the status is not 0.
C28_FailedPageRaises ==
  (pc = "done" /\ exit_code = 0) =>
    \A i \in DOMAIN calls : calls[i].result = "page"

(* ---- C29 ---- *)
\* the 0-based index of the line after the first result heading of a body
FirstResultStart(names) ==
  MinOf({ k \in DOMAIN names : names[k] = "result_h" })

\* the result content that starts after the first result heading
ResultFromFirstHeading(names) ==
  LET lines == TextLines(names)
      result_lines == PySlice(lines, FirstResultStart(names),
                              ResultEnd(lines, FirstResultStart(names)))
  IN  StripLines([k \in DOMAIN result_lines |->
                    CleanResultLine(result_lines[k])])

\* C29: the result content starts at the line after the first result
\* heading; a later line that reads as a result heading or a prompt heading
\* is result content, starts no new result section and leaves the prompt
\* lines, those between the prompt heading and the first result heading,
\* as they were.
C29_ResultStartsAtFirstHeading ==
  tr_pc \in {"build", "done"} =>
    /\ sections.result_content = ResultFromFirstHeading(tr_text)
    /\ sections.prompt_content
         = StripLines(CleanPromptLoop(TextLines(PromptOf(tr_text)), FALSE, <<>>))

(* ---- C30 ---- *)
\* a handler of the token walk has returned: the walk goes on over the
\* same tokens
HandlerReturned ==
  conv_pc = "walk" /\ conv_pc' = "walk" /\ tok_i < Len(tokens)
    /\ tokens' = tokens

\* C30: every handler of the token walk returns an index greater than the
\* one it was called with, and no handler reads a token at an index at or
\* beyond the end of the tokens (in Python an IndexError).
C30_WalkProgressAndBounds ==
  /\ [](conv_error # "IndexError")
  /\ [][HandlerReturned => tok_i' > tok_i]_vars

=============================================================================
